---- MODULE Spec2Model ----
(***************************************************************************)
(* A model of INSECA's integrity-fingerprint code: the chunked hashing of  *)
(* the live partition (lib/FingerprintChunks.py), the directory hash and   *)
(* the hash chain (lib/FingerprintHash.py, lib/Live.py), the provisioning  *)
(* and update of a key (lib/Installer.py) and its unlock at boot           *)
(* (lib/Live.py, BootProcessWKS).                                          *)
(*                                                                         *)
(* Idealisations, stated once:                                             *)
(*  - SHA-256 is a free constructor: a digest is the list of the items fed *)
(*    to the hash object, so two digests are equal exactly when the same   *)
(*    items were fed in the same order.  hexdigest()[:5] is a tagged copy  *)
(*    of the digest (no 20-bit collisions).                                *)
(*  - Encryption is symbolic: a ciphertext records the key and the clear   *)
(*    text, decryption succeeds exactly with the matching key.             *)
(*  - A file is a sequence of bytes; sizes and the chunk geometry are      *)
(*    scaled down (see max_hole, minchunksize, maxchunksize).              *)
(***************************************************************************)
EXTENDS Integers, Sequences, FiniteSets, TLC

(***************************************************************************)
(* Data values.  Every value that is hashed, encrypted or stored in a file *)
(* has the same shape, a tagged tree.                                      *)
(***************************************************************************)
S(s) == [t |-> s, i |-> 0, sub |-> <<>>]
N(n) == [t |-> "int", i |-> n, sub |-> <<>>]
L(tag, items) == [t |-> tag, i |-> 0, sub |-> items]
P(path) == L("path", [j \in 1..Len(path) |-> S(path[j])])
Bytes(ints) == [j \in 1..Len(ints) |-> N(ints[j])]

\* hashlib.sha256(): update() appends, hexdigest() closes.
Sha256(items) == L("sha256", items)
\* hexdigest()[:5], the checkpoint written in the logs and in the chunks map
Hex5(h) == L("hex5", <<h>>)

(***************************************************************************)
(* File trees: a function from paths (sequences of names) to nodes.  The   *)
(* root <<>> is a directory and is not in the domain.                      *)
(***************************************************************************)
Dir == [k |-> "D", d |-> <<>>, s |-> 0, tgt |-> <<>>]
File(d) == [k |-> "F", d |-> d, s |-> Len(d), tgt |-> <<>>]
SizedFile(d, s) == [k |-> "F", d |-> d, s |-> s, tgt |-> <<>>]
Link(tgt) == [k |-> "L", d |-> <<>>, s |-> 0, tgt |-> tgt]
EmptyTree == [p \in {} |-> Dir]
NoPath == <<"?">>

\* how many symbolic links one path resolution follows before giving up
SymlinkFuel == 2

\* list.sort() on names: the names of the model, in Python's string order
NameOrder ==
    << "EFI", "a", "blob0.json", "blob1.priv.enc", "blob1.pub", "boot",
       "bootparams.cfg", "bootparams0.cfg", "bootparams1.cfg", "chunks.enc",
       "d0", "d1", "f", "filesystem.squashfs", "grub", "grubx64.efi",
       "initrd.img", "internal-pass.enc", "l", "live", "live0", "live1",
       "meta-sign.pub", "resources", "valid-from-ts", "vmlinuz", "zz" >>

Parent(p) == SubSeq(p, 1, Len(p) - 1)
Base(p) == p[Len(p)]

RECURSIVE RealPath(_, _, _)
\* the node a path designates once every symbolic link on it is followed
RealPath(fs, p, fuel) ==
    IF p = <<>> THEN <<>>
    ELSE LET par == RealPath(fs, Parent(p), fuel)
             c == Append(par, Base(p))
         IN  IF par = NoPath \/ c \notin DOMAIN fs THEN NoPath
             ELSE IF fs[c].k # "L" THEN c
             ELSE IF fuel = 0 THEN NoPath
             ELSE RealPath(fs, par \o fs[c].tgt, fuel - 1)

\* the directory entry itself (lstat): only the parent is resolved
LPath(fs, p) ==
    LET par == RealPath(fs, Parent(p), SymlinkFuel)
    IN  IF par = NoPath \/ Append(par, Base(p)) \notin DOMAIN fs THEN NoPath
        ELSE Append(par, Base(p))

exists(fs, p) == RealPath(fs, p, SymlinkFuel) # NoPath
isdir(fs, p) ==
    LET r == RealPath(fs, p, SymlinkFuel)
    IN  r # NoPath /\ (r = <<>> \/ fs[r].k = "D")
isfile(fs, p) ==
    LET r == RealPath(fs, p, SymlinkFuel)
    IN  r # NoPath /\ r # <<>> /\ fs[r].k = "F"
islink(fs, p) == p # <<>> /\ LPath(fs, p) # NoPath /\ fs[LPath(fs, p)].k = "L"
readlink(fs, p) == fs[LPath(fs, p)].tgt
getsize(fs, p) == fs[RealPath(fs, p, SymlinkFuel)].s
contents(fs, p) == fs[RealPath(fs, p, SymlinkFuel)].d

\* os.listdir() followed by sort()
listdir(fs, p) ==
    LET r == RealPath(fs, p, SymlinkFuel)
        names == {Base(q) : q \in {x \in DOMAIN fs : Len(x) = Len(r) + 1 /\ Parent(x) = r}}
    IN  SelectSeq(NameOrder, LAMBDA n : n \in names)

(***************************************************************************)
(* lib/FingerprintChunks.py                                                *)
(***************************************************************************)
\* 768 kb in the source; the file sizes of the model are scaled accordingly
max_hole == 3
\* minchunksize=1024 and maxchunksize=2048 in _generate_file_chunks, scaled
minchunksize == 1
maxchunksize == 3

\* random.randrange(a, b)
randrange(a, b) == a..(b - 1)

RECURSIVE ChunksFrom(_, _, _, _, _, _, _)
\* the loop of _generate_random_chunks from position index on: every list of
\* [position, length] segments the random draws can produce
ChunksFrom(index, start, totalsize, maxc, minc, minsep, maxsep) ==
    IF index >= totalsize THEN {<<>>}
    ELSE UNION {
           IF pos > totalsize THEN {<<>>}
           ELSE UNION {
                  LET len == IF pos + length > totalsize THEN totalsize - pos ELSE length
                  IN  {<<<<pos, len>>>> \o rest :
                         rest \in ChunksFrom(pos + len, start, totalsize, maxc, minc, minsep, maxsep)}
                  : length \in randrange(minc, maxc) }
           : pos \in IF index = start THEN {index}
                     ELSE {index + sep : sep \in randrange(minsep, maxsep)} }

_generate_random_chunks(totalsize, maxc, minc, minsep, maxsep, start_after) ==
    ChunksFrom(start_after, start_after, totalsize, maxc, minc, minsep, maxsep)

\* int(max_hole*2/3) is the smallest gap between two chunks
_generate_file_chunks(size) ==
    _generate_random_chunks(size, maxchunksize, minchunksize, (max_hole * 2) \div 3, max_hole, 0)

RECURSIVE ReadChunks(_, _)
\* fd.seek(chunk[0]); fd.read(chunk[1]) for each chunk, concatenated
ReadChunks(data, chunks) ==
    IF chunks = <<>> THEN <<>>
    ELSE LET c == Head(chunks)
             last == IF c[1] + c[2] > Len(data) THEN Len(data) ELSE c[1] + c[2]
         IN  SubSeq(data, c[1] + 1, last) \o ReadChunks(data, Tail(chunks))

\* fd.read(chunk[1] - 1): every chunk is read one byte short
hash_chunks_one_byte_short(data, chunks) ==
    Sha256(ReadChunks(data, [j \in 1..Len(chunks) |->
                               <<chunks[j][1], IF chunks[j][2] = 0 THEN 0 ELSE chunks[j][2] - 1>>]))

_compute_file_chunks_hash(data, chunks) == Sha256(ReadChunks(data, chunks))

\* the "c" field of an entry: a list of chunks, or None for a symbolic link
NoneChunks == [none |-> TRUE, segs |-> <<>>]
SomeChunks(segs) == [none |-> FALSE, segs |-> segs]

RECURSIVE RawWalk(_, _, _)
\* the traversal of _compute_files_chunks_raw below path, names being the
\* sorted listing still to visit: the entries in order, with their kind
RawWalk(fs, path, names) ==
    IF names = <<>> THEN <<>>
    ELSE LET cfname == Append(path, Head(names))
             here == IF isdir(fs, cfname) THEN RawWalk(fs, cfname, listdir(fs, cfname))
                     ELSE IF islink(fs, cfname) THEN << [n |-> cfname, lnk |-> TRUE] >>
                     ELSE IF isfile(fs, cfname) THEN << [n |-> cfname, lnk |-> FALSE] >>
                     ELSE <<>>
         IN  here \o RawWalk(fs, path, Tail(names))

RECURSIVE PicksOf(_, _)
\* one list of segments for each entry of the traversal walk, in order (none
\* for a symbolic link)
PicksOf(fs, walk) ==
    IF walk = <<>> THEN {<<>>}
    ELSE {<<segs>> \o rest :
            segs \in (IF Head(walk).lnk THEN {<<>>}
                      ELSE _generate_file_chunks(getsize(fs, Head(walk).n))),
            rest \in PicksOf(fs, Tail(walk))}

\* every way the random chunks of the regular files can be drawn
ChunkPicks(fs) == PicksOf(fs, RawWalk(fs, <<>>, listdir(fs, <<>>)))

\* _compute_files_chunks_raw with the chunks drawn as pick says
_compute_files_chunks_raw(fs, pick) ==
    LET walk == RawWalk(fs, <<>>, listdir(fs, <<>>))
    IN  [j \in 1..Len(walk) |->
           IF walk[j].lnk
           THEN [n |-> walk[j].n, c |-> NoneChunks,
                 h |-> Sha256(<<P(readlink(fs, walk[j].n))>>), s |-> 0]
           ELSE [n |-> walk[j].n, c |-> SomeChunks(pick[j]),
                 h |-> _compute_file_chunks_hash(contents(fs, walk[j].n), pick[j]),
                 s |-> getsize(fs, walk[j].n)]]

RECURSIVE Cumul(_, _, _)
\* what the running hash object has been fed after the first j entries
Cumul(names, hashes, j) ==
    IF j = 0 THEN <<>>
    ELSE Cumul(names, hashes, j - 1) \o <<P(names[j]), S("/"), hashes[j], S("/")>>

\* (hash data, final hash); the log repeats the "l" fields of the hash data
compute_files_chunks(fs, pick) ==
    LET data == _compute_files_chunks_raw(fs, pick)
        names == [j \in 1..Len(data) |-> data[j].n]
        hashes == [j \in 1..Len(data) |-> data[j].h]
    IN  [result |-> [j \in 1..Len(data) |->
                       [n |-> data[j].n, c |-> data[j].c, s |-> data[j].s,
                        l |-> Hex5(Sha256(Cumul(names, hashes, j)))]],
         hash |-> Sha256(Cumul(names, hashes, Len(data)))]

RECURSIVE _get_rec_listdir(_, _, _)
_get_rec_listdir(fs, path, names) ==
    IF names = <<>> THEN <<>>
    ELSE LET cfname == Append(path, Head(names))
         IN  (IF isdir(fs, cfname) THEN _get_rec_listdir(fs, cfname, listdir(fs, cfname))
              ELSE <<cfname>>) \o _get_rec_listdir(fs, path, Tail(names))

\* the checks verify_files_chunks makes on one entry before hashing it
EntryCheck(fs, entry) ==
    IF islink(fs, entry.n)
    THEN IF ~entry.c.none THEN "is now a symlink" ELSE "ok"
    ELSE IF ~exists(fs, entry.n) THEN "not found"
    ELSE IF getsize(fs, entry.n) # entry.s THEN "size changed"
    ELSE IF entry.c.none THEN "should be a symlink"
    ELSE "ok"

EntryHash(fs, entry) ==
    IF islink(fs, entry.n) THEN Sha256(<<P(readlink(fs, entry.n))>>)
    ELSE _compute_file_chunks_hash(contents(fs, entry.n), entry.c.segs)

\* verify_files_chunks(path, chunks): the final hash, or the exception raised.
\* No caller passes the excluded argument.
verify_files_chunks(fs, chunks) ==
    LET n == Len(chunks)
        names == [j \in 1..n |-> chunks[j].n]
        checked == {j \in 1..n : EntryCheck(fs, chunks[j]) = "ok"}
        \* the entries before the first one that fails its checks
        upto == IF checked = 1..n THEN n
                ELSE (CHOOSE j \in 1..n : j \notin checked /\ \A x \in 1..(j - 1) : x \in checked) - 1
        hashes == [j \in 1..n |-> IF j <= upto THEN EntryHash(fs, chunks[j]) ELSE S("-")]
        modified == {j \in 1..upto : Hex5(Sha256(Cumul(names, hashes, j))) # chunks[j].l}
        allfiles == _get_rec_listdir(fs, <<>>, listdir(fs, <<>>))
        added == {j \in 1..Len(allfiles) : \A x \in 1..n : names[x] # allfiles[j]}
    IN  IF modified # {} THEN [ok |-> FALSE, err |-> "has been modified", final |-> S("-")]
        ELSE IF upto < n
        THEN [ok |-> FALSE, err |-> EntryCheck(fs, chunks[upto + 1]), final |-> S("-")]
        ELSE IF added # {} THEN [ok |-> FALSE, err |-> "has been added", final |-> S("-")]
        ELSE [ok |-> TRUE, err |-> "", final |-> Sha256(Cumul(names, hashes, n))]

(***************************************************************************)
(* lib/FingerprintHash.py, lib/CryptoPass.py, lib/CryptoX509.py and the    *)
(* integrity fingerprint of lib/Live.py                                    *)
(***************************************************************************)
\* json.dumps / json.loads of a chunks map
json_dumps(chunks) ==
    L("json", [j \in 1..Len(chunks) |->
        L("entry", << P(chunks[j].n),
                      L(IF chunks[j].c.none THEN "None" ELSE "list",
                        [k \in 1..Len(chunks[j].c.segs) |->
                            L("seg", <<N(chunks[j].c.segs[k][1]), N(chunks[j].c.segs[k][2])>>)]),
                      N(chunks[j].s),
                      chunks[j].l >>)])
json_loads(val) ==
    [j \in 1..Len(val.sub) |->
        LET e == val.sub[j].sub
        IN  [n |-> [k \in 1..Len(e[1].sub) |-> e[1].sub[k].t],
             c |-> IF e[2].t = "None" THEN NoneChunks
                   ELSE SomeChunks([k \in 1..Len(e[2].sub) |->
                                       <<e[2].sub[k].sub[1].i, e[2].sub[k].sub[2].i>>]),
             s |-> e[3].i,
             l |-> e[4]]]

\* pbkdf2_hmac("sha256", password, salt, 5000000).hex()
harden_password_for_blob0(password, salt) == L("pbkdf2", <<password, salt>>)
\* CryptoPassword(key).encrypt(clear) and the matching decrypt
Encrypt(key, clear) == L("enc", <<key, clear>>)
Decrypts(key, data) == data.t = "enc" /\ data.sub[1] = key
\* CryptoKey(priv, pub): encrypt with the public key, decrypt with the private
PubKey(priv) == L("pub", <<priv>>)
EncryptPub(pub, clear) == L("encpub", <<pub, clear>>)
DecryptsPriv(priv, data) == data.t = "encpub" /\ data.sub[1] = PubKey(priv)
Clear(data) == data.sub[2]

\* chain_integity_hash(hash0, hash1): sha256 of "hash0/hash1"
chain_integity_hash(hash0, hash1) == Sha256(<<hash0, S("/"), hash1>>)

\* compute_partitions_table_hash: "sha256|" followed by the digest of the table
compute_partitions_table_hash(table) == L("sha256|", <<Sha256(<<table>>)>>)

\* only blob0.json is left out
dummy_ignore_blob0_only(fs, relative) ==
    relative = <<"resources", "blob0.json">> /\ getsize(fs, relative) < 10000

\* _dummy_ignore(root, relative): the two files written after the fingerprint
\* is computed are left out while they stay small
_dummy_ignore(fs, relative) ==
    IF relative = <<"resources", "internal-pass.enc">> THEN getsize(fs, relative) < 500
    ELSE IF relative = <<"resources", "blob0.json">> THEN getsize(fs, relative) < 10000
    ELSE FALSE

\* _efi_ignore(root, relative): what the function returns, "True", "False" or
\* the random password it returns "to force the process to fail"
_efi_ignore(fs, relative) ==
    IF relative = <<"boot", "grub", "bootparams.cfg">>
    THEN IF ~exists(fs, <<"bootparams0.cfg">>) \/ ~exists(fs, <<"bootparams1.cfg">>)
         THEN "password"
         ELSE IF /\ contents(fs, relative) # contents(fs, <<"bootparams0.cfg">>)
                 /\ contents(fs, relative) # contents(fs, <<"bootparams1.cfg">>)
         THEN "password"
         ELSE "True"
    ELSE "False"

\* "not ignore_func(root, subfile)": only False is falsy among the results
Ignored(ignore_func, fs, subfile) ==
    IF ignore_func = "dummy" THEN _dummy_ignore(fs, subfile)
    ELSE IF ignore_func = "efi" THEN _efi_ignore(fs, subfile) # "False"
    ELSE FALSE

RECURSIVE _update_directory_hash(_, _, _)
\* what _update_directory_hash feeds to the hash object for the entries todo,
\* the first of them first: a directory is followed by its sorted listing
_update_directory_hash(fs, todo, ignore_func) ==
    IF todo = <<>> THEN <<>>
    ELSE LET subfile == Head(todo)
             flist == listdir(fs, subfile)
         IN  IF Ignored(ignore_func, fs, subfile)
             THEN _update_directory_hash(fs, Tail(todo), ignore_func)
             ELSE IF isdir(fs, subfile)
             THEN <<L("D", <<P(subfile)>>)>> \o
                  _update_directory_hash(
                      fs, [j \in 1..Len(flist) |-> Append(subfile, flist[j])] \o Tail(todo), ignore_func)
             ELSE IF islink(fs, subfile)
             THEN <<L("L", <<P(subfile)>>), P(readlink(fs, subfile))>> \o
                  _update_directory_hash(fs, Tail(todo), ignore_func)
             ELSE <<L("F", <<P(subfile)>>)>> \o contents(fs, subfile) \o
                  _update_directory_hash(fs, Tail(todo), ignore_func)

compute_directory_hash(fs, ignore_func) == Sha256(_update_directory_hash(fs, << <<>> >>, ignore_func))

RECURSIVE InterHash(_, _)
\* Device.compute_inter_partitions_hash: the spaces before each partition,
\* chained from a fixed start value
InterHash(gaps, j) ==
    IF j = 0 THEN S("Let's not start at zero!")
    ELSE chain_integity_hash(InterHash(gaps, j - 1), Sha256(<<gaps[j]>>))
compute_inter_partitions_hash(gaps) == InterHash(gaps, Len(gaps))

\* compute_integrity_fingerprint(dev, blob1_priv, live_hash): the chain
\* inter-partition data, blob1's private key, partitions table, dummy, EFI, live
compute_integrity_fingerprint(gaps, table, dummyfs, efifs, blob1_priv, live_hash) ==
    LET h1 == chain_integity_hash(compute_inter_partitions_hash(gaps), blob1_priv)
        h2 == chain_integity_hash(h1, compute_partitions_table_hash(table))
        h3 == chain_integity_hash(h2, compute_directory_hash(dummyfs, "dummy"))
        h4 == chain_integity_hash(h3, compute_directory_hash(efifs, "efi"))
    IN  chain_integity_hash(h4, live_hash)

(***************************************************************************)
(* State.                                                                  *)
(***************************************************************************)
VARIABLES
    pc,          \* where the key is in its life, and the step of the running job
    meta,        \* the appended metadata of the device
    raw,         \* partitions table and the space between the partitions
    dummy,       \* the tree of the "dummy" partition
    efi,         \* the tree of the "EFI" partition
    live,        \* the tree of the "live" partition
    internal,    \* the tree of the "internal" partition
    luks,        \* the passwords which open the encrypted partitions
    mounted,     \* the partitions mounted on the running system
    dev,         \* the Device object of the running job: _mountpoints, _auto_umount
    loc,         \* the arguments and local values of the running job
    sys,         \* the running system: files under /run and /tmp, events, slot
    iso,         \* the staged live Linux image and its signature
    snap,        \* the device and the system as they were when the job started
    hist,        \* what has happened to the key so far
    fc_pc,       \* chunks harness: "new", "sealed", "changed", "verified"
    fc_tree,     \* the tree on disk
    fc_sealed,   \* the tree as it was when compute_files_chunks ran
    fc_chunks,   \* what compute_files_chunks returned
    fc_change,   \* the change made to the tree since
    fc_verif,    \* what verify_files_chunks returned
    um,          \* user management: blob0.json and the last call made on it
    stg,         \* the staging of a live Linux update and its application
    cfg,         \* a configuration root loaded by GlobalConfiguration
    brg,         \* the archives of a borg repository and their listing
    dvc,         \* a Device object and the mounts of its partitions
    syn,         \* a run of RcloneSync.sync
    iph,         \* a partitioned device and its inter-partition hash
    prt,         \* the partitions _create_partition adds to a device
    bld,         \* a specification Builder and its template
    pidp,        \* a pid file and the processes using PIDProtector on it
    evt          \* the Events store of a running live system

diskVars == <<meta, raw, dummy, efi, live, internal, luks>>
keyVars == <<pc, diskVars, mounted, dev, loc, sys, iso, snap, hist>>
fcVars == <<fc_pc, fc_tree, fc_sealed, fc_chunks, fc_change, fc_verif>>
moreVars == <<iph, prt, bld, pidp, evt>>
auxVars == <<um, stg, cfg, brg, dvc, syn, moreVars>>
vars == <<keyVars, fcVars, auxVars>>

(***************************************************************************)
(* The values of one key.  Random values (blob0, the RSA key of blob1, the *)
(* passwords of the partitions, salts) are distinct symbols.               *)
(***************************************************************************)
\* a password or a name: its text and its length
Str(text, len) == [t |-> text, i |-> len, sub |-> <<>>]
None == S("-")

\* the longest common name an administrator gives a user
MaxName == 10000
\* boots of the key after it has been provisioned
MaxBoots == 2
\* unlock attempts at one boot
MaxAttempts == 2
\* changes made to a provisioned key: updates, user declarations by the
\* administrator, interventions of an attacker on the powered-off key
MaxChanges == 1

UserPassword == Str("ChocolatChoco12", 15)
OtherPassword == Str("Vanille-Fraise34", 16)
ShortPassword == Str("secret", 6)
\* what a user may type at the unlock prompt
Secrets == {UserPassword, OtherPassword, ShortPassword}

Blob0 == S("blob0")
Blob1Priv == S("blob1.priv")
SecPassword == S("password-internal")
IntPassword == S("int_password")
DataPassword == S("password-data")
\* the private key which signs the device metadata; its public half is
\* copied to the dummy partition as resources/meta-sign.pub
DeviceMetaKey == S("devicemeta.priv")
AttackerKey == S("attacker.priv")

\* the five partitions, in the order of the layout
Partitions == <<"EFI", "dummy", "live", "internal", "data">>

BLOB0 == <<"resources", "blob0.json">>
BLOB1_PRIV == <<"resources", "blob1.priv.enc">>
BLOB1_PUB == <<"resources", "blob1.pub">>
META_SIGN_PUB == <<"resources", "meta-sign.pub">>
CHUNKS == <<"resources", "chunks.enc">>
INTERNAL_PASS == <<"resources", "internal-pass.enc">>
DATA_PASS == <<"credentials", "data-pass.enc">>
IFP_LOG == <<"resources", "integrity-fingerprint-log.json">>
LIVELINK == <<"live">>
GRUB_EFI == <<"EFI", "boot", "grubx64.efi">>
BOOTPARAMS == <<"boot", "grub", "bootparams.cfg">>

\* the three components of a live Linux build: one byte for the kernel and
\* the initrd, three for the squashfs, all marked with the build's version
IsoFiles(v) ==
    [vmlinuz |-> Bytes(<<v>>), initrd |-> Bytes(<<v>>), squashfs |-> Bytes(<<v, v, v>>)]

\* one entry of blob0.json
Slot(uuid, salt, password, blob0, cn) ==
    L("slot", <<S(uuid), salt, Encrypt(harden_password_for_blob0(password, salt), blob0), cn>>)
RECURSIVE SlotsSize(_)
\* the size of json.dumps(users): some 250 bytes per entry, plus the name
SlotsSize(slots) ==
    IF slots = <<>> THEN 2 ELSE 250 + Head(slots).sub[4].i + SlotsSize(Tail(slots))
Blob0File(slots) == SizedFile(slots, SlotsSize(slots))
\* a file holding one encrypted value (some 150 bytes)
BlobFile(val) == SizedFile(<<val>>, 150)

hasfile(fs, p) == isfile(fs, p)
\* os.makedirs(dirname) followed by a write of the file
WriteFile(fs, p, node) ==
    LET dirs == {SubSeq(p, 1, k) : k \in 1..(Len(p) - 1)}
    IN  [q \in DOMAIN fs \cup dirs \cup {p} |->
            IF q = p THEN node ELSE IF q \in DOMAIN fs THEN fs[q] ELSE Dir]
RemoveFile(fs, p) == [q \in DOMAIN fs \ {p} |-> fs[q]]

(***************************************************************************)
(* Device (lib/Device.py): the mounts of one Device object.                *)
(***************************************************************************)
NoDev == [mountpoints |-> {}, auto |-> {}]
\* Device.mount(partition_id, auto_umount) on a partition that can be mounted:
\* a partition found mounted is returned as it is, and not registered
DevMounted(d, mnt, id, auto_umount) ==
    IF id \in mnt THEN d
    ELSE [mountpoints |-> d.mountpoints \cup {id},
          auto |-> IF auto_umount THEN d.auto \cup {id} ELSE d.auto]
\* Device.umount(partition_id)
DevUmounted(d, id) == [mountpoints |-> d.mountpoints \ {id}, auto |-> d.auto \ {id}]
\* Device.__del__: the partitions of _auto_umount are unmounted
AfterDel(d, mnt) == mnt \ d.auto

\* the metadata record: absent, or signed by a key.  The layout it holds is
\* what Device.mount reads to find a partition by its id.
NoMeta == [present |-> FALSE, by |-> None, seals |-> 0]
\* AppendedData: the signature of the metadata verifies under the public key
\* given as verifier
MetaVerifies(m, fs) ==
    /\ m.present
    /\ hasfile(fs, META_SIGN_PUB)
    /\ contents(fs, META_SIGN_PUB) = <<PubKey(m.by)>>

(***************************************************************************)
(* Installer.install (lib/Installer.py): the provisioning of a key.        *)
(***************************************************************************)
NoLoc ==
    [secret |-> None, blob0 |-> None, blob1_priv |-> None, chunks |-> <<>>,
     hash0 |-> None, ifp |-> None, int_password |-> None, data_password |-> None,
     new_slot |-> "-", opened |-> <<>>, err |-> "", exception |-> ""]
NoHist ==
    [boots |-> 0, attempts |-> 0, tampers |-> 0, updates |-> 0, declares |-> 0,
     job |-> "", result |-> "", failed_at |-> "",
     \* the last install or update which wrote to the key ran to its end
     complete |-> FALSE,
     \* blob0.json was below 10000 bytes when the fingerprint was last computed
     sealed_small |-> TRUE,
     \* how the last update ended: "ok", "refused" before it wrote, "partial"
     upd |-> "",
     \* the first step of the running job which failed without ending the
     \* job, "" when there is none
     first_error |-> ""]
DiskNow ==
    [meta |-> meta, raw |-> raw, dummy |-> dummy, efi |-> efi, live |-> live,
     internal |-> internal, luks |-> luks]
Snapshot == [disk |-> DiskNow, mounted |-> mounted, sys |-> sys]

\* a missing signature file is taken as "not signed"
verify_live_file_unless_invalid(pubkey, sig) == ~pubkey \/ sig # "invalid"

\* _verify_live_file(filename, signing_pubkey): TRUE when it returns, FALSE
\* when it raises.  pubkey: the public key file exists; sig: the state of
\* the detached signature, "valid", "invalid" or "missing"
_verify_live_file(pubkey, sig) ==
    IF ~pubkey THEN TRUE
    ELSE IF sig = "missing" THEN FALSE
    ELSE sig = "valid"

InstPcs ==
    {"i_format", "i_seal1", "i_grub", "i_seal2", "i_verify", "i_live", "i_res",
     "i_chunks", "i_ifp", "i_res2", "i_repo"}

\* install(): blob0 and the key pair of blob1 are generated
InstallBegin ==
    /\ pc = "blank"
    /\ pc' = "i_format"
    /\ loc' = [NoLoc EXCEPT !.blob0 = Blob0, !.blob1_priv = Blob1Priv]
    /\ hist' = [hist EXCEPT !.job = "install", !.result = "", !.failed_at = "", !.first_error = ""]
    /\ \E sg \in {"valid", "invalid"} : iso' = [v |-> 1, sig |-> sg, pubkey |-> TRUE]
    /\ UNCHANGED <<diskVars, mounted, dev, sys, snap>>
    /\ UNCHANGED <<fcVars, auxVars>>

\* _install_low_level: self._dev.format(specs)
InstFormat ==
    /\ pc = "i_format"
    /\ pc' = "i_seal1"
    /\ meta' = NoMeta
    /\ raw' = [table |-> S("hybrid"), gaps |-> [j \in 1..Len(Partitions) |-> S("zero")]]
    /\ dummy' = EmptyTree /\ efi' = EmptyTree /\ live' = EmptyTree /\ internal' = EmptyTree
    /\ luks' = [internal |-> {SecPassword}, data |-> {DataPassword}]
    /\ UNCHANGED <<mounted, dev, loc, sys, iso, snap, hist>>
    /\ UNCHANGED <<fcVars, auxVars>>

\* Device.seal_metadata(specs): the metadata is written and signed
seal_metadata == meta' = [present |-> TRUE, by |-> DeviceMetaKey, seals |-> meta.seals + 1]

\* _install_low_level without its first seal_metadata
InstWithoutSeal1 ==
    /\ pc = "i_seal1"
    /\ pc' = "i_grub"
    /\ UNCHANGED <<diskVars, mounted, dev, loc, sys, iso, snap, hist>>
    /\ UNCHANGED <<fcVars, auxVars>>

\* _install_low_level: the first self._dev.seal_metadata(specs)
InstSeal1 ==
    /\ pc = "i_seal1"
    /\ pc' = "i_grub"
    /\ seal_metadata
    /\ UNCHANGED <<raw, dummy, efi, live, internal, luks, mounted, dev, loc, sys, iso, snap, hist>>
    /\ UNCHANGED <<fcVars, auxVars>>

\* _install_low_level: GRUB's binaries (EFI and BIOS) and its configuration.
\* Device.install_grub_efi is declared with the archive as its only argument
\* while both of its callers hand it the image and the mount point of the EFI
\* partition; the step is taken to do what the body of the function does,
\* and a call which raises instead is one of the failures of InstFail.
InstGrub ==
    /\ pc = "i_grub"
    /\ pc' = "i_seal2"
    /\ efi' = WriteFile(WriteFile(efi, GRUB_EFI, File(Bytes(<<iso.v>>))),
                        BOOTPARAMS, File(<<S("set bootuuid=live")>>))
    /\ raw' = [raw EXCEPT !.gaps[1] = S("grub-bios")]
    /\ UNCHANGED <<meta, dummy, live, internal, luks, mounted, dev, loc, sys, iso, snap, hist>>
    /\ UNCHANGED <<fcVars, auxVars>>

\* _install_low_level: the second self._dev.seal_metadata(specs)
InstSeal2 ==
    /\ pc = "i_seal2"
    /\ pc' = "i_verify"
    /\ seal_metadata
    /\ UNCHANGED <<raw, dummy, efi, live, internal, luks, mounted, dev, loc, sys, iso, snap, hist>>
    /\ UNCHANGED <<fcVars, auxVars>>

\* what the finally clause of install() and the caller are left with
InstallEnds(result, at) ==
    /\ pc' = "off"
    /\ hist' = [hist EXCEPT !.result = result, !.failed_at = at, !.complete = (result = "ok")]
    /\ loc' = NoLoc

\* install(): the signatures of the image and of its two companion files
InstVerify ==
    /\ pc = "i_verify"
    /\ IF _verify_live_file(iso.pubkey, iso.sig)
       THEN pc' = "i_live" /\ UNCHANGED <<loc, hist>>
       ELSE InstallEnds("failed", pc)
    /\ UNCHANGED <<diskVars, mounted, dev, sys, iso, snap>>
    /\ UNCHANGED <<fcVars, auxVars>>

\* the three files install_live_linux_files_from_iso leaves in a slot
WithImage(fs, slot, v) ==
    LET a == WriteFile(fs, <<slot, "vmlinuz">>, File(IsoFiles(v).vmlinuz))
        c == WriteFile(a, <<slot, "initrd.img">>, File(IsoFiles(v).initrd))
    IN  WriteFile(c, <<slot, "filesystem.squashfs">>, File(IsoFiles(v).squashfs))

\* Installer._install_live_linux: live0 and live1, the image in live0, the
\* link live -> live0 and the file live/valid-from-ts
InstLive ==
    /\ pc = "i_live"
    /\ pc' = "i_res"
    /\ live' = LET a == WithImage(WriteFile(live, <<"live1">>, Dir), "live0", iso.v)
                   c == WriteFile(a, LIVELINK, Link(<<"live0">>))
               IN  WriteFile(c, <<"live0", "valid-from-ts">>, File(<<N(iso.v)>>))
    /\ UNCHANGED <<meta, raw, dummy, efi, internal, luks, mounted, dev, loc, sys, iso, snap, hist>>
    /\ UNCHANGED <<fcVars, auxVars>>

\* _install_resources, up to the first _write_resources_from_map
InstResources ==
    /\ pc = "i_res"
    /\ pc' = "i_chunks"
    /\ dummy' =
         LET a == WriteFile(dummy, BLOB0,
                     Blob0File(<<Slot("uuid1", S("salt1"), UserPassword, loc.blob0, Str("Live user", 9))>>))
             c == WriteFile(a, BLOB1_PRIV, BlobFile(Encrypt(loc.blob0, loc.blob1_priv)))
             e == WriteFile(c, BLOB1_PUB, BlobFile(PubKey(loc.blob1_priv)))
         IN  WriteFile(e, META_SIGN_PUB, BlobFile(PubKey(DeviceMetaKey)))
    /\ internal' = WriteFile(internal, <<"resources", "config.json">>, BlobFile(S("config")))
    /\ UNCHANGED <<meta, raw, efi, live, luks, mounted, dev, loc, sys, iso, snap, hist>>
    /\ UNCHANGED <<fcVars, auxVars>>

\* _install_resources: compute_files_chunks on the live partition, and the
\* write of resources/chunks.enc
InstChunks ==
    /\ pc = "i_chunks"
    /\ pc' = "i_ifp"
    /\ \E pick \in ChunkPicks(live) :
          \E r \in {compute_files_chunks(live, pick)} :
              /\ dummy' = WriteFile(dummy, CHUNKS,
                              BlobFile(EncryptPub(PubKey(loc.blob1_priv), json_dumps(r.result))))
              /\ loc' = [loc EXCEPT !.hash0 = r.hash]
    /\ UNCHANGED <<meta, raw, efi, live, internal, luks, mounted, dev, sys, iso, snap, hist>>
    /\ UNCHANGED <<fcVars, auxVars>>

\* _install_resources: Live.compute_integrity_fingerprint
InstFingerprint ==
    /\ pc = "i_ifp"
    /\ pc' = "i_res2"
    /\ loc' = [loc EXCEPT !.ifp = compute_integrity_fingerprint(
                                     raw.gaps, raw.table, dummy, efi, loc.blob1_priv, loc.hash0)]
    /\ hist' = [hist EXCEPT !.sealed_small = getsize(dummy, BLOB0) < 10000]
    /\ UNCHANGED <<diskVars, mounted, dev, sys, iso, snap>>
    /\ UNCHANGED <<fcVars, auxVars>>

\* _install_resources, after the fingerprint: the password of the internal
\* partition is added to it, and the two passwords are written, encrypted
\* with the fingerprint
InstPasswords ==
    /\ pc = "i_res2"
    /\ pc' = "i_repo"
    /\ luks' = [luks EXCEPT !.internal = @ \cup {IntPassword}]
    /\ dummy' = WriteFile(dummy, INTERNAL_PASS, BlobFile(Encrypt(loc.ifp, IntPassword)))
    /\ internal' = WriteFile(WriteFile(internal, IFP_LOG, BlobFile(loc.ifp)),
                             DATA_PASS, BlobFile(Encrypt(loc.ifp, DataPassword)))
    /\ UNCHANGED <<meta, raw, efi, live, mounted, dev, loc, sys, iso, snap, hist>>
    /\ UNCHANGED <<fcVars, auxVars>>

\* _install_build_repo and _install_userdata, which write to the internal
\* partition, and the return of install()
InstUserdata ==
    /\ pc = "i_repo"
    /\ internal' = WriteFile(internal, <<"components", "userdata.json">>, BlobFile(S("userdata")))
    /\ InstallEnds("ok", "")
    /\ UNCHANGED <<meta, raw, dummy, efi, live, luks, mounted, dev, sys, iso, snap>>
    /\ UNCHANGED <<fcVars, auxVars>>

\* any step of the installation raises (a write fails, a tool is missing)
InstFail ==
    /\ pc \in InstPcs
    /\ InstallEnds("failed", pc)
    /\ UNCHANGED <<diskVars, mounted, dev, sys, iso, snap>>
    /\ UNCHANGED <<fcVars, auxVars>>

(***************************************************************************)
(* Boot, and the unlock of the key: InsecaStartupJob.run (Jobs.py) running *)
(* BootProcessWKS.start (lib/Live.py).                                     *)
(***************************************************************************)
\* GRUB loads live/vmlinuz and live/initrd.img, the system mounts
\* live/filesystem.squashfs: the link "live" designates the slot
Bootable ==
    /\ islink(live, LIVELINK)
    /\ hasfile(live, <<"live", "vmlinuz">>)
    /\ hasfile(live, <<"live", "initrd.img">>)
    /\ hasfile(live, <<"live", "filesystem.squashfs">>)

Boot ==
    /\ pc = "off"
    /\ hist.boots < MaxBoots
    /\ Bootable
    /\ pc' = "login"
    /\ mounted' = {"live"}
    /\ sys' = [runfiles |-> {}, comment |-> None, events |-> <<>>,
               slot |-> readlink(live, LIVELINK)[1]]
    /\ hist' = [hist EXCEPT !.boots = @ + 1, !.attempts = 0]
    /\ loc' = NoLoc
    /\ dev' = NoDev
    /\ UNCHANGED <<diskVars, iso, snap>>
    /\ UNCHANGED <<fcVars, auxVars>>

PowerOff ==
    /\ pc \in {"login", "unlocked", "post_failed", "running"}
    /\ pc' = "off"
    /\ mounted' = {}
    /\ dev' = NoDev
    /\ loc' = NoLoc
    /\ sys' = [sys EXCEPT !.runfiles = {}, !.slot = "-"]
    /\ UNCHANGED <<diskVars, iso, snap, hist>>
    /\ UNCHANGED <<fcVars, auxVars>>

\* the slots of blob0.json, none when the file is missing
Slots(fs) == IF hasfile(fs, BLOB0) THEN contents(fs, BLOB0) ELSE <<>>
\* the try block of _unlock_blob0 for one slot: the hardened password, then
\* the password itself (keys made before the hardening)
SlotOpens(slot, user_password) ==
    \/ Decrypts(harden_password_for_blob0(user_password, slot.sub[2]), slot.sub[3])
    \/ Decrypts(user_password, slot.sub[3])
\* the first slot is returned whichever password is given
unlock_blob0_first_slot(slots, user_password) == IF slots = <<>> THEN 0 ELSE 1

\* _unlock_blob0: the first slot the password opens, 0 when it raises
_unlock_blob0(slots, user_password) ==
    IF user_password.i < 10 THEN 0
    ELSE IF \A j \in 1..Len(slots) : ~SlotOpens(slots[j], user_password) THEN 0
    ELSE CHOOSE j \in 1..Len(slots) :
           SlotOpens(slots[j], user_password) /\ \A k \in 1..(j - 1) : ~SlotOpens(slots[k], user_password)

\* start() raises: InsecaStartupJob.run catches the exception and sets its
\* own, the BootProcessWKS object and its Device are destroyed
StartRaises(msg) ==
    /\ pc' = "login"
    /\ loc' = [loc EXCEPT !.err = msg, !.exception = "Wrong password or device compromised"]
    /\ mounted' = AfterDel(dev, mounted)
    /\ dev' = NoDev
    /\ hist' = [hist EXCEPT !.attempts = @ + 1, !.result = "failed", !.failed_at = pc]

\* the step goes on
StartGoes(to) == pc' = to /\ UNCHANGED hist

\* InsecaStartupJob.run: Live.BootProcessWKS(live_env), bp.start(passwd)
StartBegin ==
    /\ pc = "login"
    /\ hist.attempts < MaxAttempts
    /\ \E secret \in Secrets : loc' = [NoLoc EXCEPT !.secret = secret]
    /\ pc' = "s_mount"
    /\ dev' = NoDev
    /\ snap' = Snapshot
    /\ hist' = [hist EXCEPT !.job = "start", !.result = "", !.failed_at = "", !.first_error = ""]
    /\ UNCHANGED <<diskVars, mounted, sys, iso>>
    /\ UNCHANGED <<fcVars, auxVars>>

\* dmp=self._dev.mount(partid_dummy)
StartMountDummy ==
    /\ pc = "s_mount"
    /\ IF meta.present
       THEN /\ StartGoes("s_verify")
            /\ dev' = DevMounted(dev, mounted, "dummy", TRUE)
            /\ mounted' = mounted \cup {"dummy"}
            /\ UNCHANGED loc
       ELSE StartRaises("no metadata")
    /\ UNCHANGED <<diskVars, sys, iso, snap>>
    /\ UNCHANGED <<fcVars, auxVars>>

\* start() going on without self._dev.verify(verifiers)
StartWithoutVerify ==
    /\ pc = "s_verify"
    /\ StartGoes("s_blob0")
    /\ UNCHANGED <<loc, mounted, dev>>
    /\ UNCHANGED <<diskVars, sys, iso, snap>>
    /\ UNCHANGED <<fcVars, auxVars>>

\* self._dev.verify(verifiers), the verifier being resources/meta-sign.pub
StartVerify ==
    /\ pc = "s_verify"
    /\ IF MetaVerifies(meta, dummy)
       THEN StartGoes("s_blob0") /\ UNCHANGED <<loc, mounted, dev>>
       ELSE StartRaises("invalid metadata signature")
    /\ UNCHANGED <<diskVars, sys, iso, snap>>
    /\ UNCHANGED <<fcVars, auxVars>>

\* blob0=self._unlock_blob0(user_password)
StartUnlockBlob0 ==
    /\ pc = "s_blob0"
    /\ LET j == _unlock_blob0(Slots(dummy), loc.secret)
       IN  IF loc.secret.i < 10
           THEN StartRaises("Invalid password: not strong enough") /\ UNCHANGED sys
           ELSE IF ~hasfile(dummy, BLOB0)
           THEN StartRaises("No such file") /\ UNCHANGED sys
           ELSE IF j = 0
           THEN StartRaises("Invalid password") /\ UNCHANGED sys
           ELSE /\ StartGoes("s_blob1")
                /\ loc' = [loc EXCEPT !.blob0 = Clear(Slots(dummy)[j].sub[3])]
                /\ sys' = [sys EXCEPT !.runfiles = @ \cup {"/run/INSECA/user_uuid"},
                                      !.comment = Slots(dummy)[j].sub[4]]
                /\ UNCHANGED <<mounted, dev>>
    /\ UNCHANGED <<diskVars, iso, snap>>
    /\ UNCHANGED <<fcVars, auxVars>>

\* self._unlock_blob1(blob0)
StartUnlockBlob1 ==
    /\ pc = "s_blob1"
    /\ IF hasfile(dummy, BLOB1_PRIV) /\ Decrypts(loc.blob0, contents(dummy, BLOB1_PRIV)[1])
       THEN /\ StartGoes("s_chunks")
            /\ loc' = [loc EXCEPT !.blob1_priv = Clear(contents(dummy, BLOB1_PRIV)[1])]
            /\ UNCHANGED <<mounted, dev>>
       ELSE StartRaises("Internal error (could not decrypt 'blob1')")
    /\ UNCHANGED <<diskVars, sys, iso, snap>>
    /\ UNCHANGED <<fcVars, auxVars>>

\* chunks=json.loads(eobj.decrypt(echunks))
StartLoadChunks ==
    /\ pc = "s_chunks"
    /\ IF hasfile(dummy, CHUNKS) /\ DecryptsPriv(loc.blob1_priv, contents(dummy, CHUNKS)[1])
       THEN /\ StartGoes("s_live")
            /\ loc' = [loc EXCEPT !.chunks = json_loads(Clear(contents(dummy, CHUNKS)[1]))]
            /\ UNCHANGED <<mounted, dev>>
       ELSE StartRaises("could not decrypt chunks")
    /\ UNCHANGED <<diskVars, sys, iso, snap>>
    /\ UNCHANGED <<fcVars, auxVars>>

\* lmp=self._dev.mount(partid_live); fpchunks.verify_files_chunks(lmp, chunks)
StartVerifyLive ==
    /\ pc = "s_live"
    /\ LET v == verify_files_chunks(live, loc.chunks)
       IN  IF v.ok
           THEN /\ StartGoes("s_ifp")
                /\ loc' = [loc EXCEPT !.hash0 = v.final]
                /\ dev' = DevMounted(dev, mounted, "live", TRUE)
                /\ mounted' = mounted \cup {"live"}
           ELSE /\ StartRaises(v.err)
    /\ UNCHANGED <<diskVars, sys, iso, snap>>
    /\ UNCHANGED <<fcVars, auxVars>>

\* compute_integrity_fingerprint (which mounts the EFI partition), and the
\* log written to /tmp/integrity-fingerprint-log-verif.json
StartFingerprint ==
    /\ pc = "s_ifp"
    /\ StartGoes("s_intpass")
    /\ loc' = [loc EXCEPT !.ifp = compute_integrity_fingerprint(
                                     raw.gaps, raw.table, dummy, efi, loc.blob1_priv, loc.hash0)]
    /\ dev' = DevMounted(dev, mounted, "EFI", TRUE)
    /\ mounted' = mounted \cup {"EFI"}
    /\ sys' = [sys EXCEPT !.runfiles = @ \cup {"/tmp/integrity-fingerprint-log-verif.json"}]
    /\ UNCHANGED <<diskVars, iso, snap>>
    /\ UNCHANGED <<fcVars, auxVars>>

\* int_password=eobj.decrypt(data).decode(); self._dev.umount(partid_dummy)
StartInternalPass ==
    /\ pc = "s_intpass"
    /\ IF hasfile(dummy, INTERNAL_PASS) /\ Decrypts(loc.ifp, contents(dummy, INTERNAL_PASS)[1])
       THEN /\ StartGoes("s_internal")
            /\ loc' = [loc EXCEPT !.int_password = Clear(contents(dummy, INTERNAL_PASS)[1])]
            /\ dev' = DevUmounted(dev, "dummy")
            /\ mounted' = mounted \ {"dummy"}
       ELSE StartRaises("Could not decrypt data using password")
    /\ UNCHANGED <<diskVars, sys, iso, snap>>
    /\ UNCHANGED <<fcVars, auxVars>>

\* self._dev.mount("internal", "/internal", auto_umount=False): the entry of
\* _mountpoints is made before the partition is opened, and stays when the
\* mount point was given by the caller
StartMountInternal ==
    /\ pc = "s_internal"
    /\ IF "internal" \in mounted
       THEN StartGoes("s_datapass") /\ UNCHANGED <<loc, mounted, dev>>
       ELSE IF loc.int_password \in luks.internal
       THEN /\ StartGoes("s_datapass")
            /\ loc' = [loc EXCEPT !.opened = Append(@, "internal")]
            /\ dev' = DevMounted(dev, mounted, "internal", FALSE)
            /\ mounted' = mounted \cup {"internal"}
       ELSE StartRaises("Could not open partition")
    /\ UNCHANGED <<diskVars, sys, iso, snap>>
    /\ UNCHANGED <<fcVars, auxVars>>

\* data_password=eobj.decrypt(load_file_contents("/internal/credentials/data-pass.enc"))
StartDataPass ==
    /\ pc = "s_datapass"
    /\ IF hasfile(internal, DATA_PASS) /\ Decrypts(loc.ifp, contents(internal, DATA_PASS)[1])
       THEN /\ StartGoes("s_data")
            /\ loc' = [loc EXCEPT !.data_password = Clear(contents(internal, DATA_PASS)[1])]
            /\ UNCHANGED <<mounted, dev>>
       ELSE StartRaises("Could not decrypt data using password")
    /\ UNCHANGED <<diskVars, sys, iso, snap>>
    /\ UNCHANGED <<fcVars, auxVars>>

\* self._dev.mount("data", ..., auto_umount=False) and the return of start():
\* the job keeps the result, the Device object is destroyed
StartMountData ==
    /\ pc = "s_data"
    /\ IF "data" \in mounted \/ loc.data_password \in luks.data
       THEN /\ pc' = "unlocked"
            /\ hist' = [hist EXCEPT !.result = "ok"]
            /\ loc' = [loc EXCEPT !.opened = IF "data" \in mounted THEN @ ELSE Append(@, "data")]
            /\ mounted' = AfterDel(DevMounted(dev, mounted, "data", FALSE), mounted \cup {"data"})
            /\ dev' = NoDev
       ELSE StartRaises("Could not open partition")
    /\ UNCHANGED <<diskVars, sys, iso, snap>>
    /\ UNCHANGED <<fcVars, auxVars>>

\* post_start raising whichever of its steps fails
post_start_strict(chpasswd_ok, setup_ok) ==
    IF ~chpasswd_ok THEN [raised |-> TRUE, at |-> "p_chpasswd", events |-> <<>>]
    ELSE IF ~setup_ok THEN [raised |-> TRUE, at |-> "p_setup", events |-> <<>>]
    ELSE [raised |-> FALSE, at |-> "", events |-> <<>>]

\* BootProcessWKS.post_start(user_password): chpasswd raises when it fails;
\* whatever fails afterwards (PRIVDATA, the configuration scripts, the SSH
\* keys) is caught, and queued as an exception event
post_start(chpasswd_ok, setup_ok) ==
    IF ~chpasswd_ok THEN [raised |-> TRUE, at |-> "p_chpasswd", events |-> <<>>]
    ELSE IF ~setup_ok THEN [raised |-> FALSE, at |-> "p_setup", events |-> <<"exception">>]
    ELSE [raised |-> FALSE, at |-> "", events |-> <<>>]

\* InsecaPostStartupJob.run: post_start, then the two events; the exception
\* of post_start becomes the exception of the job
PostStartup ==
    /\ pc = "unlocked"
    /\ \E chpasswd_ok \in BOOLEAN : \E setup_ok \in BOOLEAN :
       \E r \in {post_start(chpasswd_ok, setup_ok)} :
          /\ pc' = IF r.raised THEN "post_failed" ELSE "running"
          /\ sys' = [sys EXCEPT !.events = IF r.raised THEN @
                                           ELSE @ \o r.events \o <<"declare-device", "booted">>]
          /\ hist' = [hist EXCEPT !.job = "post_start",
                                  !.result = IF r.raised THEN "failed" ELSE "ok",
                                  !.failed_at = IF r.raised THEN r.at ELSE "",
                                  !.first_error = IF r.raised THEN "" ELSE r.at]
    /\ UNCHANGED <<diskVars, mounted, dev, loc, iso, snap>>
    /\ UNCHANGED <<fcVars, auxVars>>

(***************************************************************************)
(* LiveLinuxUpdateApplyJob.run (Jobs.py) running Updater.update            *)
(* (lib/Installer.py) on the unlocked key.                                 *)
(***************************************************************************)
Changes == hist.updates + hist.declares + hist.tampers

\* the staged image: its version, the state of its detached signatures, and
\* whether the running system holds /opt/share/build-sign-key.pub
StagedIsos ==
    {[v |-> 2, sig |-> sg, pubkey |-> pk] : sg \in {"valid", "invalid", "missing"}, pk \in BOOLEAN}

UpdPcs ==
    {"u_blob1", "u_verify", "u_copy", "u_rmlink", "u_symlink", "u_grub", "u_chunks",
     "u_ifp", "u_intpass", "u_datapass"}

\* the finally clause of the job: the dummy partition is unmounted; the
\* Updater and its Device are destroyed
UpdateEnds(result, at) ==
    /\ pc' = "running"
    /\ mounted' = AfterDel(dev, mounted) \ {"dummy"}
    /\ dev' = NoDev
    /\ hist' = [hist EXCEPT !.result = result, !.failed_at = at,
                            !.upd = IF result = "ok" THEN "ok"
                                    ELSE IF at \in {"u_blob1", "u_verify", "u_copy"} THEN "refused"
                                    ELSE "partial",
                            !.complete = IF result = "ok" THEN TRUE
                                         ELSE IF at \in {"u_blob1", "u_verify", "u_copy"} THEN @
                                         ELSE FALSE]

UpdGoes(to) == pc' = to /\ UNCHANGED <<mounted, dev, hist>>

\* the job finds a staged image, mounts the dummy partition and builds the
\* DeviceUpdater with the values start() returned; when the mount fails the
\* job sets its exception and goes on, with an empty directory in place of
\* the dummy partition
UpdateBegin ==
    /\ pc = "running"
    /\ Changes < MaxChanges
    /\ \E staged \in StagedIsos : iso' = staged
    /\ pc' = "u_blob1"
    /\ snap' = Snapshot
    /\ dev' = NoDev
    /\ \E mount_ok \in BOOLEAN :
          /\ mounted' = IF mount_ok THEN mounted \cup {"dummy"} ELSE mounted
          /\ hist' = [hist EXCEPT !.updates = @ + 1, !.job = "update", !.result = "",
                                  !.failed_at = "",
                                  !.first_error = IF mount_ok THEN "" ELSE "u_mount"]
    /\ UNCHANGED <<diskVars, loc, sys>>
    /\ UNCHANGED <<fcVars, auxVars>>

\* update(): blob1_priv=eobj0.decrypt(data).decode()
UpdDecryptBlob1 ==
    /\ pc = "u_blob1"
    /\ IF /\ hist.first_error # "u_mount"
          /\ hasfile(dummy, BLOB1_PUB) /\ hasfile(dummy, BLOB1_PRIV)
          /\ Decrypts(loc.blob0, contents(dummy, BLOB1_PRIV)[1])
       THEN /\ UpdGoes("u_verify")
            /\ loc' = [loc EXCEPT !.blob1_priv = Clear(contents(dummy, BLOB1_PRIV)[1])]
       ELSE UpdateEnds("failed", pc) /\ UNCHANGED loc
    /\ UNCHANGED <<diskVars, sys, iso, snap>>
    /\ UNCHANGED <<fcVars, auxVars>>

\* the image is copied to the inactive slot before its signature is checked
UpdCopiesBeforeVerify ==
    /\ pc = "u_verify"
    /\ IF _verify_live_file(iso.pubkey, iso.sig)
       THEN UpdGoes("u_copy") /\ UNCHANGED live
       ELSE /\ UpdateEnds("failed", pc)
            /\ live' = WriteFile(live, <<"live1", "vmlinuz">>, File(Bytes(<<iso.v>>)))
    /\ UNCHANGED <<meta, raw, dummy, efi, internal, luks, loc, sys, iso, snap>>
    /\ UNCHANGED <<fcVars, auxVars>>

\* update(): the three calls of _verify_live_file
UpdVerify ==
    /\ pc = "u_verify"
    /\ IF _verify_live_file(iso.pubkey, iso.sig)
       THEN UpdGoes("u_copy")
       ELSE UpdateEnds("failed", pc)
    /\ UNCHANGED <<diskVars, loc, sys, iso, snap>>
    /\ UNCHANGED <<fcVars, auxVars>>

\* the files of a slot directory are removed
ClearSlot(fs, slot) == [q \in {x \in DOMAIN fs : ~(Len(x) = 2 /\ x[1] = slot)} |-> fs[q]]
\* new_index=current_index
SameSlot(target) == target[1]
\* Updater._install_live_linux: new_index
OtherSlot(target) == IF target = <<"live0">> THEN "live1" ELSE "live0"

\* Updater._install_live_linux: the slot the link does not designate is
\* emptied, and receives the image
UpdCopyImage ==
    /\ pc = "u_copy"
    /\ IF islink(live, LIVELINK) /\ readlink(live, LIVELINK) \in {<<"live0">>, <<"live1">>}
       THEN /\ UpdGoes("u_rmlink")
            /\ loc' = [loc EXCEPT !.new_slot = OtherSlot(readlink(live, LIVELINK))]
            /\ live' = WithImage(ClearSlot(live, OtherSlot(readlink(live, LIVELINK))),
                                 OtherSlot(readlink(live, LIVELINK)), iso.v)
       ELSE UpdateEnds("failed", pc) /\ UNCHANGED <<loc, live>>
    /\ UNCHANGED <<meta, raw, dummy, efi, internal, luks, sys, iso, snap>>
    /\ UNCHANGED <<fcVars, auxVars>>

\* Updater._install_live_linux: os.remove(livelink)
UpdRemoveLink ==
    /\ pc = "u_rmlink"
    /\ UpdGoes("u_symlink")
    /\ live' = RemoveFile(live, LIVELINK)
    /\ UNCHANGED <<meta, raw, dummy, efi, internal, luks, loc, sys, iso, snap>>
    /\ UNCHANGED <<fcVars, auxVars>>

\* os.symlink("live%s"%current_index, livelink): the link is made again
\* towards the slot it designated
UpdSymlinkToCurrent ==
    /\ pc = "u_symlink"
    /\ UpdGoes("u_grub")
    /\ live' = WriteFile(live, LIVELINK, Link(readlink(snap.disk.live, LIVELINK)))
    /\ UNCHANGED <<meta, raw, dummy, efi, internal, luks, loc, sys, iso, snap>>
    /\ UNCHANGED <<fcVars, auxVars>>

\* Updater._install_live_linux: os.symlink("live%s"%new_index, livelink)
UpdSymlink ==
    /\ pc = "u_symlink"
    /\ UpdGoes("u_grub")
    /\ live' = WriteFile(live, LIVELINK, Link(<<loc.new_slot>>))
    /\ UNCHANGED <<meta, raw, dummy, efi, internal, luks, loc, sys, iso, snap>>
    /\ UNCHANGED <<fcVars, auxVars>>

\* update(): the EFI partition is mounted and receives GRUB's binaries (the
\* same call of Device.install_grub_efi as in InstGrub; a call which raises
\* is one of the failures of UpdFail)
UpdGrubEfi ==
    /\ pc = "u_grub"
    /\ pc' = "u_chunks"
    /\ dev' = DevMounted(dev, mounted, "EFI", TRUE)
    /\ mounted' = mounted \cup {"EFI"}
    /\ efi' = WriteFile(efi, GRUB_EFI, File(Bytes(<<iso.v>>)))
    /\ UNCHANGED <<meta, raw, dummy, live, internal, luks, loc, sys, iso, snap, hist>>
    /\ UNCHANGED <<fcVars, auxVars>>

\* update(): compute_files_chunks on the live partition, and chunks.enc
UpdChunks ==
    /\ pc = "u_chunks"
    /\ UpdGoes("u_ifp")
    /\ \E pick \in ChunkPicks(live) :
          \E r \in {compute_files_chunks(live, pick)} :
              /\ dummy' = WriteFile(dummy, CHUNKS,
                              BlobFile(EncryptPub(contents(dummy, BLOB1_PUB)[1], json_dumps(r.result))))
              /\ loc' = [loc EXCEPT !.hash0 = r.hash]
    /\ UNCHANGED <<meta, raw, efi, live, internal, luks, sys, iso, snap>>
    /\ UNCHANGED <<fcVars, auxVars>>

\* update(): the fingerprint, and its log written to the internal partition
UpdFingerprint ==
    /\ pc = "u_ifp"
    /\ pc' = "u_intpass"
    /\ hist' = [hist EXCEPT !.sealed_small = getsize(dummy, BLOB0) < 10000]
    /\ UNCHANGED <<mounted, dev>>
    /\ loc' = [loc EXCEPT !.ifp = compute_integrity_fingerprint(
                                     raw.gaps, raw.table, dummy, efi, loc.blob1_priv, loc.hash0)]
    /\ internal' = WriteFile(internal, IFP_LOG,
                     BlobFile(compute_integrity_fingerprint(
                                raw.gaps, raw.table, dummy, efi, loc.blob1_priv, loc.hash0)))
    /\ UNCHANGED <<meta, raw, dummy, efi, live, luks, sys, iso, snap>>
    /\ UNCHANGED <<fcVars, auxVars>>

\* update(): resources/internal-pass.enc
UpdInternalPass ==
    /\ pc = "u_intpass"
    /\ UpdGoes("u_datapass")
    /\ dummy' = WriteFile(dummy, INTERNAL_PASS, BlobFile(Encrypt(loc.ifp, loc.int_password)))
    /\ UNCHANGED <<meta, raw, efi, live, internal, luks, loc, sys, iso, snap>>
    /\ UNCHANGED <<fcVars, auxVars>>

\* update(): credentials/data-pass.enc, and the return of update()
UpdDataPass ==
    /\ pc = "u_datapass"
    /\ UpdateEnds("ok", "")
    /\ internal' = WriteFile(internal, DATA_PASS, BlobFile(Encrypt(loc.ifp, loc.data_password)))
    /\ UNCHANGED <<meta, raw, dummy, efi, live, luks, loc, sys, iso, snap>>
    /\ UNCHANGED <<fcVars, auxVars>>

\* any step of the update raises (a write fails, the device is full)
UpdFail ==
    /\ pc \in UpdPcs
    /\ UpdateEnds("failed", pc)
    /\ UNCHANGED <<diskVars, loc, sys, iso, snap>>
    /\ UNCHANGED <<fcVars, auxVars>>

(***************************************************************************)
(* What happens to the key while it is powered off.                        *)
(***************************************************************************)
Provisioned == hist.complete \/ hist.updates > 0

\* str(uuid.uuid4()): an identifier no slot has yet
UuidPool == <<"uuid2", "uuid3", "uuid4", "uuid5", "uuid6">>
UuidFree(slots, k) == \A j \in 1..Len(slots) : slots[j].sub[1] # S(UuidPool[k])
uuid4(slots) ==
    UuidPool[CHOOSE k \in 1..Len(UuidPool) :
                UuidFree(slots, k) /\ \A m \in 1..(k - 1) : ~UuidFree(slots, m)]

\* Live.declare_user(dummy_mountpoint, name, user_password, blob0): the slot
\* with that name gets a new salt and blob, or a new slot is added
declare_user(slots, name, user_password, blob0) ==
    IF \E j \in 1..Len(slots) : slots[j].sub[4] = name
    THEN LET j == CHOOSE x \in 1..Len(slots) :
                    slots[x].sub[4] = name /\ \A k \in 1..(x - 1) : slots[k].sub[4] # name
         IN  [slots EXCEPT ![j] = Slot(slots[j].sub[1].t, S("salt2"), user_password, blob0, name)]
    ELSE Append(slots, Slot(uuid4(slots), S("salt2"), user_password, blob0, name))

\* the administrator declares a user, or gives one a new password
DeclareUser ==
    /\ pc = "off"
    /\ Provisioned
    /\ Changes < MaxChanges
    /\ \E name \in {Str("Live user", 9), Str("Jean Dupont", 11), Str("Jean ... Dupont", MaxName)} :
       \E password \in {OtherPassword, ShortPassword} :
          dummy' = WriteFile(dummy, BLOB0, Blob0File(declare_user(Slots(dummy), name, password, Blob0)))
    /\ hist' = [hist EXCEPT !.declares = @ + 1]
    /\ UNCHANGED <<pc, meta, raw, efi, live, internal, luks, mounted, dev, loc, sys, iso, snap>>
    /\ UNCHANGED <<fcVars, auxVars>>

\* somebody who holds the key, but none of its secrets, writes to it
Tamper ==
    /\ pc = "off"
    /\ Provisioned
    /\ Changes < MaxChanges
    /\ hist' = [hist EXCEPT !.tampers = @ + 1]
    /\ \/ /\ meta' = [meta EXCEPT !.by = AttackerKey]
          /\ UNCHANGED <<raw, dummy, efi, live, internal>>
       \/ /\ meta' = [meta EXCEPT !.by = AttackerKey]
          /\ dummy' = WriteFile(dummy, META_SIGN_PUB, BlobFile(PubKey(AttackerKey)))
          /\ UNCHANGED <<raw, efi, live, internal>>
       \/ /\ \E k \in {1, Len(Partitions)} : raw' = [raw EXCEPT !.gaps[k] = S("evil")]
          /\ UNCHANGED <<meta, dummy, efi, live, internal>>
       \/ /\ raw' = [raw EXCEPT !.table = S("evil")]
          /\ UNCHANGED <<meta, dummy, efi, live, internal>>
       \/ /\ \E p \in {BLOB1_PUB, INTERNAL_PASS, <<"resources", "zz">>} :
                dummy' = WriteFile(dummy, p, BlobFile(S("evil")))
          /\ UNCHANGED <<meta, raw, efi, live, internal>>
       \/ /\ \E p \in {GRUB_EFI, BOOTPARAMS} : efi' = WriteFile(efi, p, File(<<S("evil")>>))
          /\ UNCHANGED <<meta, raw, dummy, live, internal>>
       \/ /\ \E j \in 1..3 :
                live' = [live EXCEPT ![<<"live0", "filesystem.squashfs">>].d[j] = N(0)]
          /\ UNCHANGED <<meta, raw, dummy, efi, internal>>
    /\ UNCHANGED <<pc, luks, mounted, dev, loc, sys, iso, snap>>
    /\ UNCHANGED <<fcVars, auxVars>>

(***************************************************************************)
(* compute_files_chunks and verify_files_chunks on arbitrary small trees.  *)
(***************************************************************************)
\* the largest file of the trees
MaxFileSize == 3

MkTree(entries) == [p \in {e[1] : e \in entries} |-> (CHOOSE e \in entries : e[1] = p)[2]]
Ones(n) == Bytes([j \in 1..n |-> 1])

\* a file "a", two directories "d0" and "d1" holding a file "f" or nothing,
\* and a symbolic link "l" to one of them, to "a" or to nothing
FcTrees ==
    LET optA == {{}} \cup {{<< <<"a">>, File(Ones(n)) >>} : n \in 0..MaxFileSize}
        optD(d, fills) ==
            {{}, {<< <<d>>, Dir >>}} \cup
            {{<< <<d>>, Dir >>, << <<d, "f">>, File(Bytes(<<b>>)) >>} : b \in fills}
        optL == {{}} \cup {{<< <<"l">>, Link(<<t>>) >>} : t \in {"a", "d0", "d1", "zz"}}
    IN  {MkTree(a \cup x \cup y \cup l) :
           a \in optA, x \in optD("d0", {1}), y \in optD("d1", {1, 2}), l \in optL}

NoChange == [kind |-> "none", path |-> <<>>, pos |-> 0]
NoVerif == [ok |-> FALSE, err |-> "not run", final |-> S("-")]
NoChunksMap == [result |-> <<>>, hash |-> S("-")]

\* the key before it is provisioned
KeyInit ==
    /\ pc = "blank"
    /\ meta = NoMeta
    /\ raw = [table |-> None, gaps |-> [j \in 1..Len(Partitions) |-> None]]
    /\ dummy = EmptyTree /\ efi = EmptyTree /\ live = EmptyTree /\ internal = EmptyTree
    /\ luks = [internal |-> {}, data |-> {}]
    /\ mounted = {}
    /\ dev = NoDev
    /\ loc = NoLoc
    /\ sys = [runfiles |-> {}, comment |-> None, events |-> <<>>, slot |-> "-"]
    /\ iso = [v |-> 1, sig |-> "valid", pubkey |-> TRUE]
    /\ snap = [disk |-> [meta |-> NoMeta,
                         raw |-> [table |-> None, gaps |-> [j \in 1..Len(Partitions) |-> None]],
                         dummy |-> EmptyTree, efi |-> EmptyTree, live |-> EmptyTree,
                         internal |-> EmptyTree, luks |-> [internal |-> {}, data |-> {}]],
               mounted |-> {},
               sys |-> [runfiles |-> {}, comment |-> None, events |-> <<>>, slot |-> "-"]]
    /\ hist = NoHist

FcIdle ==
    /\ fc_pc = "new"
    /\ fc_sealed = EmptyTree
    /\ fc_chunks = NoChunksMap
    /\ fc_change = NoChange
    /\ fc_verif = NoVerif

\* the values of the other components while they are not exercised
UmIdle == [pc |-> "idle"]
StgIdle == [pc |-> "idle"]
CfgIdle == [pc |-> "idle"]
BrgIdle == [pc |-> "idle"]
DvcIdle == [pc |-> "idle"]
SynIdle == [pc |-> "idle"]
IphIdle == [pc |-> "idle"]
PrtIdle == [pc |-> "idle"]
BldIdle == [pc |-> "idle"]
PidpIdle == [pc |-> "idle"]
EvtIdle == [pc |-> "idle"]
MoreIdle ==
    /\ iph = IphIdle /\ prt = PrtIdle /\ bld = BldIdle
    /\ pidp = PidpIdle /\ evt = EvtIdle
AuxIdle ==
    /\ um = UmIdle /\ stg = StgIdle /\ cfg = CfgIdle
    /\ brg = BrgIdle /\ dvc = DvcIdle /\ syn = SynIdle
    /\ MoreIdle

FcInit ==
    /\ KeyInit
    /\ FcIdle
    /\ AuxIdle
    /\ fc_tree \in FcTrees

FcCompute ==
    /\ fc_pc = "new"
    /\ \E pick \in ChunkPicks(fc_tree) : fc_chunks' = compute_files_chunks(fc_tree, pick)
    /\ fc_sealed' = fc_tree
    /\ fc_pc' = "sealed"
    /\ UNCHANGED <<fc_tree, fc_change, fc_verif, keyVars, auxVars>>

FcChanged(tree, kind, p, pos) ==
    /\ fc_pc = "sealed"
    /\ fc_tree' = tree
    /\ fc_change' = [kind |-> kind, path |-> p, pos |-> pos]
    /\ fc_pc' = "changed"
    /\ UNCHANGED <<fc_sealed, fc_chunks, fc_verif, keyVars, auxVars>>

RegularFiles(fs) == {p \in DOMAIN fs : fs[p].k = "F"}
Links(fs) == {p \in DOMAIN fs : fs[p].k = "L"}
Without(fs, p) == [q \in DOMAIN fs \ {p} |-> fs[q]]
With(fs, p, node) == [q \in DOMAIN fs \cup {p} |-> IF q = p THEN node ELSE fs[q]]
\* the paths at which a new entry can be created
FreePaths(fs) ==
    {p \in {<<"a">>, <<"l">>, <<"zz">>, <<"d0", "f">>, <<"d1", "f">>} :
       p \notin DOMAIN fs /\ (Len(p) = 1 \/ (Parent(p) \in DOMAIN fs /\ fs[Parent(p)].k = "D"))}

\* one byte of a regular file is overwritten with another value
FcChangeByte ==
    \E p \in RegularFiles(fc_tree) : \E j \in 1..Len(fc_tree[p].d) :
        FcChanged([fc_tree EXCEPT ![p].d[j] = N(0)], "byte", p, j - 1)

\* a regular file grows or shrinks by one byte
FcChangeSize ==
    \E p \in RegularFiles(fc_tree) :
        \/ FcChanged([fc_tree EXCEPT ![p] = File(Append(fc_tree[p].d, N(1)))], "size", p, 0)
        \/ /\ fc_tree[p].d # <<>>
           /\ FcChanged([fc_tree EXCEPT ![p] = File(Parent(fc_tree[p].d))], "size", p, 0)

\* a regular file or a symbolic link is deleted
FcRemove ==
    \E p \in RegularFiles(fc_tree) \cup Links(fc_tree) :
        FcChanged(Without(fc_tree, p), "removed", p, 0)

\* a symbolic link is pointed somewhere else
FcRetarget ==
    \E p \in Links(fc_tree) : \E t \in {"a", "d0", "d1", "zz"} \ {fc_tree[p].tgt[1]} :
        FcChanged([fc_tree EXCEPT ![p] = Link(<<t>>)], "target", p, 0)

\* a regular file is created
FcAddFile ==
    \E p \in FreePaths(fc_tree) : FcChanged(With(fc_tree, p, File(Ones(1))), "added", p, 0)

\* a symbolic link is created
FcAddLink ==
    \E p \in FreePaths(fc_tree) : \E t \in {"a", "d0", "d1"} :
        FcChanged(With(fc_tree, p, Link(<<t>>)), "linked", p, 0)

FcVerify ==
    /\ fc_pc \in {"sealed", "changed"}
    /\ fc_verif' = verify_files_chunks(fc_tree, fc_chunks.result)
    /\ fc_pc' = "verified"
    /\ UNCHANGED <<fc_tree, fc_sealed, fc_chunks, fc_change, keyVars, auxVars>>

NextChunks ==
    \/ FcCompute
    \/ FcChangeByte
    \/ FcChangeSize
    \/ FcRemove
    \/ FcRetarget
    \/ FcAddFile
    \/ FcAddLink
    \/ FcVerify

SpecChunks == FcInit /\ [][NextChunks]_vars

(***************************************************************************)
(* The life of one key.                                                    *)
(***************************************************************************)
Init ==
    /\ KeyInit
    /\ FcIdle
    /\ AuxIdle
    /\ fc_tree = EmptyTree

Install ==
    \/ InstallBegin \/ InstFormat \/ InstSeal1 \/ InstGrub \/ InstSeal2 \/ InstVerify
    \/ InstLive \/ InstResources \/ InstChunks \/ InstFingerprint \/ InstPasswords
    \/ InstUserdata \/ InstFail
Start ==
    \/ StartBegin \/ StartMountDummy \/ StartVerify \/ StartUnlockBlob0 \/ StartUnlockBlob1
    \/ StartLoadChunks \/ StartVerifyLive \/ StartFingerprint \/ StartInternalPass
    \/ StartMountInternal \/ StartDataPass \/ StartMountData
Update ==
    \/ UpdateBegin \/ UpdDecryptBlob1 \/ UpdVerify \/ UpdCopyImage \/ UpdRemoveLink
    \/ UpdSymlink \/ UpdGrubEfi \/ UpdChunks \/ UpdFingerprint \/ UpdInternalPass
    \/ UpdDataPass \/ UpdFail

Next ==
    \/ Install \/ Boot \/ Start \/ PostStartup \/ Update
    \/ PowerOff \/ DeclareUser \/ Tamper

Spec == Init /\ [][Next]_vars

(***************************************************************************)
(* Properties of compute_files_chunks / verify_files_chunks.               *)
(***************************************************************************)
\* offset pos of the regular file p is inside a chunk that the map records
\* for p, under whichever name the traversal reached it
Sampled(p, pos) ==
    \E j \in 1..Len(fc_chunks.result) :
        LET e == fc_chunks.result[j]
        IN  /\ ~e.c.none
            /\ RealPath(fc_sealed, e.n, SymlinkFuel) = p
            /\ \E k \in 1..Len(e.c.segs) :
                   e.c.segs[k][1] <= pos /\ pos < e.c.segs[k][1] + e.c.segs[k][2]

\* C8, as stated: after any single-byte change to any file of the tree,
\* verify_files_chunks with the map computed before the change fails.
C8_AnyByteChangeFails ==
    (fc_pc = "verified" /\ fc_change.kind = "byte") => ~fc_verif.ok

\* C8, amended: after a single-byte change at an offset that lies inside one
\* of the chunks the map records for that file, verify_files_chunks fails,
\* reporting the file as modified.
C8_SampledByteChangeFails ==
    (fc_pc = "verified" /\ fc_change.kind = "byte" /\ Sampled(fc_change.path, fc_change.pos))
        => (~fc_verif.ok /\ fc_verif.err = "has been modified")

\* a byte inside a recorded chunk was changed and the verification failed
C8_Witness ==
    /\ fc_pc = "verified"
    /\ fc_change.kind = "byte"
    /\ Sampled(fc_change.path, fc_change.pos)
    /\ fc_change.pos > 0
    /\ ~fc_verif.ok

ListedMissing ==
    \E j \in 1..Len(fc_chunks.result) :
        ~exists(fc_tree, fc_chunks.result[j].n) /\ ~islink(fc_tree, fc_chunks.result[j].n)
SizeChanged ==
    \E p \in RegularFiles(fc_sealed) \cap RegularFiles(fc_tree) : fc_sealed[p].s # fc_tree[p].s
TargetChanged ==
    \E p \in Links(fc_sealed) \cap Links(fc_tree) : fc_sealed[p].tgt # fc_tree[p].tgt
AddedFile ==
    \E p \in RegularFiles(fc_tree) : \A j \in 1..Len(fc_chunks.result) : fc_chunks.result[j].n # p

\* C9: verify_files_chunks fails whenever a file listed in the map is missing
\* on disk, a file's size changed, a symbolic link's target changed, or a
\* file on disk is absent from the map.
C9_VerifyDetects ==
    (fc_pc = "verified" /\ (ListedMissing \/ SizeChanged \/ TargetChanged \/ AddedFile))
        => ~fc_verif.ok

(***************************************************************************)
(* Properties of BootProcessWKS.start.                                     *)
(***************************************************************************)
StartPcs ==
    {"s_mount", "s_verify", "s_blob0", "s_blob1", "s_chunks", "s_live", "s_ifp",
     "s_intpass", "s_internal", "s_datapass", "s_data"}
\* the steps of start() which check the key or the secret
CheckPcs == {"s_mount", "s_verify", "s_blob0", "s_blob1", "s_chunks", "s_live", "s_intpass"}
\* this execution of start() has opened the partition
Opened(part) == \E j \in 1..Len(loc.opened) : loc.opened[j] = part
Operational == {"internal", "data"}

\* the key as it is passes every check of start() for the secret given: the
\* signature of the metadata, the decryption of a user slot, of blob1 and of
\* the chunks map, the verification of the live partition, and the
\* decryption of internal-pass.enc under the fingerprint chain
ChecksPass ==
    /\ MetaVerifies(meta, dummy)
    /\ _unlock_blob0(Slots(dummy), loc.secret) # 0
    /\ hasfile(dummy, BLOB1_PRIV)
    /\ Decrypts(Clear(Slots(dummy)[_unlock_blob0(Slots(dummy), loc.secret)].sub[3]),
                contents(dummy, BLOB1_PRIV)[1])
    /\ hasfile(dummy, CHUNKS)
    /\ DecryptsPriv(Clear(contents(dummy, BLOB1_PRIV)[1]), contents(dummy, CHUNKS)[1])
    /\ \E v \in {verify_files_chunks(live, json_loads(Clear(contents(dummy, CHUNKS)[1])))} :
          /\ v.ok
          /\ hasfile(dummy, INTERNAL_PASS)
          /\ Decrypts(compute_integrity_fingerprint(
                          raw.gaps, raw.table, dummy, efi,
                          Clear(contents(dummy, BLOB1_PRIV)[1]), v.final),
                      contents(dummy, INTERNAL_PASS)[1])

\* C1: in every execution of start(), the internal partition is opened only
\* once the metadata signature check, the user-slot decryption, the chunk
\* verification of the live partition and the fingerprint chain have all
\* succeeded, and the data partition only after the internal partition; when
\* one of these steps fails start() fails and opens neither partition.
C1_OpenedOnlyAfterChecks ==
    /\ (pc \in StartPcs \cup {"unlocked"} /\ Opened("internal")) => ChecksPass
    /\ (pc \in StartPcs \cup {"unlocked"} /\ Opened("data"))
          => (ChecksPass /\ "internal" \in mounted /\ loc.opened[Len(loc.opened)] = "data")
    /\ (pc = "login" /\ loc.exception # "" /\ hist.failed_at \in CheckPcs)
          => (loc.opened = <<>> /\ mounted \cap Operational = snap.mounted \cap Operational)

\* start() has returned after opening the internal and then the data partition
C1_Witness ==
    /\ pc = "unlocked"
    /\ loc.opened = <<"internal", "data">>
    /\ mounted \cap Operational = Operational

\* the secret opens no user slot of blob0.json
WrongSecret(slots, secret) == \A j \in 1..Len(slots) : ~SlotOpens(slots[j], secret)

\* C10: an unlock attempt with a wrong user secret fails with the
\* wrong-password error and changes nothing else: no partition is opened or
\* left mounted, no file is written, no event is queued.
C10_WrongSecretChangesNothing ==
    (hist.job = "start" /\ pc \in StartPcs \cup {"login", "unlocked"} /\ loc.secret # None
        /\ WrongSecret(Slots(snap.disk.dummy), loc.secret))
    => /\ pc \in {"s_mount", "s_verify", "s_blob0", "login"}
       /\ loc.opened = <<>>
       /\ DiskNow = snap.disk
       /\ sys = snap.sys
       /\ mounted \cap Operational = snap.mounted \cap Operational
       /\ pc = "login" =>
             /\ hist.result = "failed"
             /\ loc.exception = "Wrong password or device compromised"
             /\ mounted = snap.mounted
             /\ (hist.failed_at = "s_blob0" /\ hasfile(dummy, BLOB0)) =>
                   loc.err \in {"Invalid password", "Invalid password: not strong enough"}

\* a wrong secret was refused at the decryption of the user slots of a key
\* whose metadata verifies
C10_Witness ==
    /\ pc = "login"
    /\ hist.job = "start"
    /\ hist.failed_at = "s_blob0"
    /\ loc.err = "Invalid password"
    /\ WrongSecret(Slots(dummy), loc.secret)
    /\ Slots(dummy) # <<>>

(***************************************************************************)
(* Properties of Updater.update.                                           *)
(***************************************************************************)
\* the slot the link "live" designates, <<>> when there is no link
Pointer(fs) == IF islink(fs, LIVELINK) THEN readlink(fs, LIVELINK) ELSE <<>>
\* the slot the link does not designate
Inactive(fs) == IF Pointer(fs) = <<"live0">> THEN <<"live1">> ELSE <<"live0">>
\* the three blobs an update seals, as a tree holds them
BlobsOf(d) ==
    << IF hasfile(d.dummy, CHUNKS) THEN contents(d.dummy, CHUNKS) ELSE <<>>,
       IF hasfile(d.dummy, INTERNAL_PASS) THEN contents(d.dummy, INTERNAL_PASS) ELSE <<>>,
       IF hasfile(d.internal, DATA_PASS) THEN contents(d.internal, DATA_PASS) ELSE <<>> >>
\* the files of one slot directory
SlotFiles(fs, slot) == [q \in {x \in DOMAIN fs : Len(x) = 2 /\ x[1] = slot} |-> fs[q]]
UpdateReturned == pc = "running" /\ hist.job = "update"

C5_UnsignedRefused ==
    (hist.job = "update" /\ pc \in UpdPcs \cup {"running"} /\ iso.sig # "valid")
        => /\ live = snap.disk.live
           /\ pc = "running" => hist.result = "failed"

\* C5, amended: when the running system holds the public signing key file,
\* update() writes to the key only after the image has been verified against
\* its detached signature: a missing or invalid signature makes it refuse,
\* and the key is left as it was.
C5_UnsignedRefusedWithKey ==
    (hist.job = "update" /\ pc \in UpdPcs \cup {"running"} /\ iso.pubkey /\ iso.sig # "valid")
        => /\ pc \in {"u_blob1", "u_verify", "running"}
           /\ DiskNow = snap.disk
           /\ pc = "running" => (hist.result = "failed" /\ hist.upd = "refused")

\* an update whose signature file is missing was refused at the signature
\* check, the public key being there
C5_Witness ==
    /\ UpdateReturned
    /\ iso.pubkey
    /\ iso.sig = "missing"
    /\ hist.failed_at = "u_verify"

(***************************************************************************)
(* Properties of Installer.install.                                        *)
(***************************************************************************)
InstallReturned == hist.job = "install" /\ pc = "off"

\* C6, as stated: sealing the metadata is the final step of the
\* provisioning, so a provisioning that fails leaves no signed metadata.
C6_FailedInstallUnsigned ==
    /\ pc \in InstPcs => ~meta.present
    /\ (InstallReturned /\ hist.result = "failed") => ~meta.present

\* C6, amended: the metadata is written and signed in the first phase of the
\* provisioning, right after the device is formatted and again after GRUB is
\* installed, before the live image and the resources are written: only a
\* provisioning that fails before the first seal leaves no signed metadata.
C6_SealedInFirstPhase ==
    /\ pc \in InstPcs =>
          /\ meta.present <=> pc \notin {"i_format", "i_seal1"}
          /\ meta.seals = (IF pc \in {"i_format", "i_seal1"} THEN 0
                           ELSE IF pc \in {"i_grub", "i_seal2"} THEN 1 ELSE 2)
          /\ meta.present => meta.by = DeviceMetaKey
    /\ (InstallReturned /\ hist.result = "failed")
          => (meta.present <=> hist.failed_at \notin {"i_format", "i_seal1"})
    /\ (InstallReturned /\ hist.result = "ok") => (meta.present /\ meta.seals = 2)

\* a provisioning failed while the live image was being written, and left
\* signed metadata on a key without resources
C6_Witness ==
    /\ InstallReturned
    /\ hist.result = "failed"
    /\ hist.failed_at = "i_live"
    /\ meta.present
    /\ ~hasfile(dummy, BLOB0)

(***************************************************************************)
(* The fingerprint at boot against the fingerprint of the sealed blobs.    *)
(***************************************************************************)
\* start() has returned or raised
StartEnded == pc \in {"login", "unlocked"} /\ hist.job = "start" /\ hist.result # ""
\* the key is as its provisioning or its last completed update left it,
\* apart from declarations of users
Unmodified == hist.complete /\ hist.tampers = 0

notUm == <<keyVars, fcVars, stg, cfg, brg, dvc, syn, moreVars>>

\* blob0.json as Installer._install_resources writes it
InstalledSlots == <<Slot("uuid1", S("salt1"), UserPassword, Blob0, Str("Live user", 9))>>
\* the names an administrator declares
UmNames == {Str("Live user", 9), Str("Jean Dupont", 11)}

\* change_user_password: the first slot the current password opens, with
\* the hardened password or with the password itself; 0 when there is none
OpenedBy(slots, password) ==
    IF \A j \in 1..Len(slots) : ~SlotOpens(slots[j], password) THEN 0
    ELSE CHOOSE j \in 1..Len(slots) :
           SlotOpens(slots[j], password) /\ \A k \in 1..(j - 1) : ~SlotOpens(slots[k], password)

\* change_user_password(dummy_mountpoint, current_password, new_password):
\* blob0.json afterwards, and the message of the exception ("" when none)
change_user_password(slots, current_password, new_password) ==
    IF current_password = new_password THEN [slots |-> slots, err |-> ""]
    ELSE IF current_password.i < 10
    THEN [slots |-> slots, err |-> "Invalid password: not strong enough"]
    ELSE IF OpenedBy(slots, current_password) = 0
    THEN [slots |-> slots, err |-> "Invalid password"]
    ELSE [slots |-> declare_user(slots, slots[OpenedBy(slots, current_password)].sub[4], new_password,
                                 Clear(slots[OpenedBy(slots, current_password)].sub[3])),
          err |-> ""]

UmInit ==
    um = [pc |-> "ready", slots |-> InstalledSlots, before |-> InstalledSlots,
          old |-> None, new |-> None, err |-> ""]

\* LiveAdminContext.declare_user: the administrator, who holds blob0,
\* declares a user or resets a password
UmDeclare ==
    /\ \E name \in UmNames : \E password \in Secrets :
          um' = [pc |-> "declared", slots |-> declare_user(um.slots, name, password, Blob0),
                 before |-> um.slots, old |-> None, new |-> password, err |-> ""]
    /\ UNCHANGED notUm

\* PasswordChangeJob.run: Live.change_user_password on the mounted dummy
\* partition
UmChange ==
    /\ \E old \in Secrets : \E new \in Secrets :
       \E r \in {change_user_password(um.slots, old, new)} :
          um' = [pc |-> "changed", slots |-> r.slots, before |-> um.slots,
                 old |-> old, new |-> new, err |-> r.err]
    /\ UNCHANGED notUm

\* Live.delete_user(dummy_mountpoint, name, internal_mountpoint): every slot
\* of that name is removed, unless blob0.json holds a single slot
delete_user(slots, name) ==
    IF Len(slots) = 1
    THEN [slots |-> slots, err |-> "Can't remove user when there is only one"]
    ELSE [slots |-> SelectSeq(slots, LAMBDA e : e.sub[4] # name), err |-> ""]

\* an administrator removes a user: Live.delete_user on the mounted dummy
\* partition
UmDelete ==
    /\ \E name \in UmNames :
       \E r \in {delete_user(um.slots, name)} :
          um' = [pc |-> "deleted", slots |-> r.slots, before |-> um.slots,
                 old |-> None, new |-> None, err |-> r.err]
    /\ UNCHANGED notUm

\* Live.reset_user_password(dummy_mountpoint, name, user_password, blob0)
UmReset ==
    /\ \E name \in UmNames : \E password \in Secrets :
          um' = [pc |-> "reset", slots |-> declare_user(um.slots, name, password, Blob0),
                 before |-> um.slots, old |-> None, new |-> password, err |-> ""]
    /\ UNCHANGED notUm

NextUsers == UmDeclare \/ UmChange \/ UmDelete \/ UmReset

InitUsers ==
    /\ KeyInit /\ FcIdle /\ fc_tree = EmptyTree
    /\ UmInit /\ stg = StgIdle /\ cfg = CfgIdle /\ brg = BrgIdle /\ dvc = DvcIdle /\ syn = SynIdle /\ MoreIdle

SpecUsers == InitUsers /\ [][NextUsers]_vars

\* the last call was a change of password which returned normally, the two
\* passwords being different
UmChanged == um.pc = "changed" /\ um.err = "" /\ um.old # um.new

\* C11: after change_user_password(old, new), the slot that old unlocked
\* unlocks with new, every other slot is unchanged and the value of blob0 is
\* unchanged.
C11_ChangeRewritesOneSlot ==
    UmChanged =>
        \E j \in {OpenedBy(um.before, um.old)} :
            /\ j # 0
            /\ Len(um.slots) = Len(um.before)
            /\ \A k \in 1..Len(um.slots) : k # j => um.slots[k] = um.before[k]
            /\ Clear(um.slots[j].sub[3]) = Clear(um.before[j].sub[3])
            /\ _unlock_blob0(<<um.slots[j]>>, um.new) = 1

\* the slot releases blob0 to some password typed at the unlock screen
Releases(slot) == \E password \in Secrets : _unlock_blob0(<<slot>>, password) = 1
\* no two slots of blob0.json carry the same name
UniqueNames(slots) ==
    \A j \in 1..Len(slots) : \A k \in 1..Len(slots) :
        slots[j].sub[4] = slots[k].sub[4] => j = k
\* the last call was a delete_user which returned normally
UmDeleted == um.pc = "deleted" /\ um.err = ""

\* C29: after any sequence of declare_user, delete_user,
\* change_user_password and reset_user_password, blob0.json holds at least
\* one slot, and delete_user never removes the last slot able to release
\* blob0.
C29_ASlotReleasesBlob0 ==
    /\ Len(um.slots) >= 1
    /\ (UmDeleted /\ \E j \in 1..Len(um.before) : Releases(um.before[j]))
          => \E j \in 1..Len(um.slots) : Releases(um.slots[j])

(***************************************************************************)
(* How the jobs report the failure of a step.                              *)
(***************************************************************************)
\* the first step of the last job which failed, "" when none did
FirstError == IF hist.first_error # "" THEN hist.first_error ELSE hist.failed_at
\* the last job has ended, and its values are still there
JobEnded ==
    /\ hist.result # ""
    /\ \/ hist.job = "install" /\ pc = "off" /\ hist.boots = 0
       \/ hist.job = "start" /\ pc \in {"login", "unlocked"} /\ loc.secret # None
       \/ hist.job = "post_start" /\ pc \in {"post_failed", "running"}
       \/ hist.job = "update" /\ pc = "running"

notStg == <<keyVars, fcVars, um, cfg, brg, dvc, syn, moreVars>>

\* archives published in the build repository during a behaviour
MaxArchives == 2

\* the files of an archive, in the order in which they are extracted
ArchiveFiles ==
    <<"live-linux.iso", "live-linux.iso.sign", "infos.json", "infos.json.sign",
      "live-linux.userdata-specs", "live-linux.userdata-specs.sign">>
\* the files update() verifies
VerifiedFiles == {"live-linux.iso", "infos.json", "live-linux.userdata-specs"}
SignOf(f) == f \o ".sign"
ArchiveFileSet == {ArchiveFiles[i] : i \in 1..Len(ArchiveFiles)}

\* the state of a file of the staging directory: the archive it was
\* extracted from (0: the file does not exist) and whether all of it was
\* written
NoFile == [ar |-> 0, full |-> FALSE]
Whole(ar) == [ar |-> ar, full |-> TRUE]
Part(ar) == [ar |-> ar, full |-> FALSE]
EmptyStage == [f \in ArchiveFileSet |-> NoFile]

\* what borg extract leaves in an empty directory when it stops after n
\* files, the next one being cut short when cut is TRUE
extract_archive(archive_name, n, cut) ==
    [f \in ArchiveFileSet |->
        IF \E i \in 1..n : ArchiveFiles[i] = f THEN Whole(archive_name)
        ELSE IF cut /\ n < Len(ArchiveFiles) /\ ArchiveFiles[n + 1] = f THEN Part(archive_name)
        ELSE NoFile]

\* the state of the detached signature of a staged file, as
\* _verify_live_file finds it
StagedSig(dir, f) ==
    IF dir[SignOf(f)] = NoFile THEN "missing"
    ELSE IF dir[f].full /\ dir[SignOf(f)] = dir[f] THEN "valid"
    ELSE "invalid"

\* the three verifications of Updater.update() on the staged files
update_verifies(dir, pubkey) ==
    \A f \in VerifiedFiles : _verify_live_file(pubkey, StagedSig(dir, f))

StgInit ==
    stg = [pc |-> "ready", dir |-> EmptyStage, marker |-> 0, pubkey |-> TRUE,
           latest |-> 0, kernel_ts |-> 0, archive_name |-> 0, result |-> "",
           installed |-> NoFile, from |-> EmptyStage]

\* the image was built without the signature component: no public key file
StgUnsignedBuild ==
    /\ stg.pc = "ready" /\ stg.latest = 0 /\ stg.pubkey
    /\ stg' = [stg EXCEPT !.pubkey = FALSE]
    /\ UNCHANGED notStg

\* a new archive is pushed to the build repository
StgPublish ==
    /\ stg.pc = "ready" /\ stg.latest < MaxArchives
    /\ stg' = [stg EXCEPT !.latest = @ + 1]
    /\ UNCHANGED notStg

\* LiveLinuxUpdatesGetJob.run up to the comparison with the staged archive
GetBegin ==
    /\ stg.pc = "ready"
    /\ \E sync_ok \in BOOLEAN :
          stg' = IF ~sync_ok THEN [stg EXCEPT !.result = "exception"]
                 ELSE IF stg.latest > stg.kernel_ts /\ stg.latest # stg.marker
                      THEN [stg EXCEPT !.pc = "g_clear", !.archive_name = stg.latest, !.result = ""]
                 ELSE [stg EXCEPT !.result = "0"]
    /\ UNCHANGED notStg

\* the staging directory is cleared, the file archive_name included; a
\* removal which fails ends the job
GetClear ==
    /\ stg.pc = "g_clear"
    /\ \E removed \in SUBSET {f \in ArchiveFileSet : stg.dir[f] # NoFile} :
       \E marker_removed \in BOOLEAN :
       \E done \in {removed = {f \in ArchiveFileSet : stg.dir[f] # NoFile} /\ marker_removed} :
          stg' = [stg EXCEPT !.dir = [f \in ArchiveFileSet |-> IF f \in removed THEN NoFile ELSE @[f]],
                             !.marker = IF marker_removed THEN 0 ELSE @,
                             !.pc = IF done THEN "g_extract" ELSE "ready",
                             !.result = IF done THEN "" ELSE "exception"]
    /\ UNCHANGED notStg

\* borg extract into the staging directory: all the files, or the first
\* ones only when it fails or is stopped
GetExtract ==
    /\ stg.pc = "g_extract"
    /\ \E n \in 0..Len(ArchiveFiles) : \E cut \in BOOLEAN :
          stg' = [stg EXCEPT !.dir = extract_archive(stg.archive_name, n, cut),
                             !.pc = IF n = Len(ArchiveFiles) THEN "g_commit" ELSE "ready",
                             !.result = IF n = Len(ArchiveFiles) THEN "" ELSE "exception"]
    /\ UNCHANGED notStg

\* the name of the archive is written to the file archive_name
GetCommit ==
    /\ stg.pc = "g_commit"
    /\ stg' = [stg EXCEPT !.marker = stg.archive_name, !.pc = "ready", !.result = "1"]
    /\ UNCHANGED notStg

\* the key is switched off while the job runs
GetKilled ==
    /\ stg.pc \in {"g_clear", "g_extract", "g_commit"}
    /\ stg' = [stg EXCEPT !.pc = "ready", !.result = "killed"]
    /\ UNCHANGED notStg

\* LiveLinuxUpdateApplyJob.run: nothing is done without a staged ISO file;
\* otherwise update() verifies the staged files and installs the ISO file.
\* An ISO file cut short either fails to mount or is copied as it is.
ApplyRun ==
    /\ stg.pc = "ready"
    /\ \E mounts \in BOOLEAN :
          stg' = IF stg.dir["live-linux.iso"] = NoFile
                 THEN [stg EXCEPT !.result = "0", !.installed = NoFile, !.from = EmptyStage]
                 ELSE IF ~update_verifies(stg.dir, stg.pubkey)
                         \/ (~stg.dir["live-linux.iso"].full /\ ~mounts)
                 THEN [stg EXCEPT !.result = "exception", !.installed = NoFile, !.from = EmptyStage]
                 ELSE [stg EXCEPT !.result = "1", !.installed = stg.dir["live-linux.iso"],
                                  !.from = stg.dir,
                                  !.kernel_ts = stg.dir["live-linux.iso"].ar]
    /\ UNCHANGED notStg

NextStaging ==
    \/ StgUnsignedBuild \/ StgPublish
    \/ GetBegin \/ GetClear \/ GetExtract \/ GetCommit \/ GetKilled
    \/ ApplyRun

InitStaging ==
    /\ KeyInit /\ FcIdle /\ fc_tree = EmptyTree
    /\ StgInit /\ um = UmIdle /\ cfg = CfgIdle /\ brg = BrgIdle /\ dvc = DvcIdle /\ syn = SynIdle /\ MoreIdle

SpecStaging == InitStaging /\ [][NextStaging]_vars

\* C13: when the apply job installs an image, the image and every other
\* file of the staging directory were completely extracted from one
\* archive.
C13_AppliesOnlyCompleteStage ==
    (stg.pc = "ready" /\ stg.installed # NoFile)
        => /\ stg.installed.full
           /\ \A f \in ArchiveFileSet : stg.from[f] = stg.installed

(***************************************************************************)
(* Configuration roots (lib/Configurations.py).  A root is the set of the  *)
(* configuration files it holds; an identifier or a passphrase made by     *)
(* uuid4() or generate_password() is the next value of a counter.          *)
(***************************************************************************)
notCfg == <<keyVars, fcVars, um, stg, brg, dvc, syn, moreVars>>

\* configurations created or copied into a root during a behaviour
MaxConfigs == 3
\* calls of clone() or remove() during a behaviour
MaxClones == 2
\* names tried by a hand-made copy of a configuration file
MaxFiles == 1
\* configurations named in the list given to remove()
MaxKeep == 1

Kinds == <<"build", "install", "format", "domain", "repo">>
KindSet == {Kinds[i] : i \in 1..Len(Kinds)}
RootNames == {"A", "B"}

\* a configuration file: its directory is the one of its kind and file is
\* the index in its name; repo, build: identifiers referenced (0: none);
\* members: the install and format configurations of a domain; pass: the
\* passphrase of a repository
Conf(kind, file, id, repo, build, members, pass) ==
    [kind |-> kind, file |-> file, id |-> id, repo |-> repo, build |-> build,
     members |-> members, pass |-> pass]
NoConf == Conf("none", 0, 0, 0, 0, {}, 0)

\* identify_free_filename: the first index not used in the directory
identify_free_filename(root, kind) ==
    CHOOSE n \in 0..Cardinality(root) :
        /\ \A e \in root : e.kind = kind => e.file # n
        /\ \A m \in 0..(n - 1) : \E e \in root : e.kind = kind /\ e.file = m

\* the path given to the constructor of a configuration, and the value its
\* loader compares config_file with: the same path, but the name alone in
\* _load_domain_configs
config_file(e) == <<e.kind, e.file>>
LoaderPath(e) == IF e.kind = "domain" THEN <<e.file>> ELSE <<e.kind, e.file>>

\* the files of one kind, in the order of the listing
RECURSIVE ListDir(_, _)
ListDir(root, kind) ==
    IF \A e \in root : e.kind # kind THEN <<>>
    ELSE LET first == CHOOSE e \in root :
                         e.kind = kind /\ \A o \in root : o.kind = kind => e.file <= o.file
         IN  <<first>> \o ListDir(root \ {first}, kind)

SeqHas(s, x) == \E i \in 1..Len(s) : s[i] = x

\* one iteration of a loader: g is the object being built (raised, the list
\* _all_conf_ids, the configurations kept), e the file read
LoadOne(g, e) ==
    IF g.raised THEN g
    ELSE IF e.kind = "repo"
    THEN IF SeqHas(g.ids, e.id)
         THEN [g EXCEPT !.raised = (config_file(e) # LoaderPath(e))]
         ELSE [g EXCEPT !.ids = Append(@, e.id), !.confs = @ \cup {e}]
    ELSE IF SeqHas(g.ids, e.id) /\ config_file(e) # LoaderPath(e)
    THEN [g EXCEPT !.raised = TRUE]
    ELSE [g EXCEPT !.ids = Append(@, e.id),
                   !.confs = {c \in @ : ~(c.kind = e.kind /\ c.id = e.id)} \cup {e}]

RECURSIVE LoadFiles(_, _)
LoadFiles(g, files) ==
    IF files = <<>> THEN g ELSE LoadFiles(LoadOne(g, Head(files)), Tail(files))

\* GlobalConfiguration(path): the loaders, kind after kind
GlobalConfiguration(root) ==
    LoadFiles([raised |-> FALSE, ids |-> <<>>, confs |-> {}],
              ListDir(root, "build") \o ListDir(root, "install") \o ListDir(root, "format")
                 \o ListDir(root, "domain") \o ListDir(root, "repo"))

KindRank(kind) == CHOOSE i \in 1..Len(Kinds) : Kinds[i] = kind

\* get_any_conf, get_repo_conf: the configuration of that identifier, NoConf
\* when there is none
get_any_conf(confs, id) ==
    IF \E c \in confs : c.id = id
    THEN CHOOSE c \in confs : c.id = id /\ \A o \in confs : o.id = id => KindRank(c.kind) <= KindRank(o.kind)
    ELSE NoConf
get_repo_conf(confs, id) ==
    IF \E c \in confs : c.kind = "repo" /\ c.id = id
    THEN CHOOSE c \in confs : c.kind = "repo" /\ c.id = id
    ELSE NoConf

\* get_referenced_configurations
get_referenced_configurations(confs, c) ==
    {r \in confs : \/ r.kind = "repo" /\ r.id \in {c.repo, c.build} /\ c.kind # "repo"
                   \/ c.kind = "domain" /\ \E m \in c.members : r = get_any_conf(confs, m)}
\* get_referenced_by_configurations
get_referenced_by_configurations(confs, r) ==
    {c \in confs : r \in get_referenced_configurations(confs, c)}

\* the configuration and its repository are deleted whatever the list
remove_whatever_kept(confs, self, must_be_kept) ==
    {self} \cup {r \in confs : r.kind = "repo" /\ r.id = self.repo /\ self.kind # "repo"}

\* remove(must_be_kept): the files deleted
remove(confs, self, must_be_kept) ==
    IF self \in must_be_kept THEN {}
    ELSE IF self.kind = "repo" THEN {self}
    ELSE {self} \cup {r \in {get_repo_conf(confs, self.repo)} : r # NoConf /\ r \notin must_be_kept}

\* the map of a cloning: pairs of the identifier of an original and of its
\* clone
MapGet(map, id) == IF \E p \in map : p[1] = id THEN (CHOOSE p \in map : p[1] = id)[2] ELSE 0
MapSet(map, id, nuid) == {p \in map : p[1] # id} \cup {<<id, nuid>>}

\* the outcome of a clone(): the files added to the target root, the
\* identifier returned, the map and the counter of the generated values
Cloned(added, nuid, map, next) ==
    [raised |-> FALSE, added |-> added, nuid |-> nuid, map |-> map, next |-> next]
CloneRaised(map, next) ==
    [raised |-> TRUE, added |-> {}, nuid |-> 0, map |-> map, next |-> next]

\* RepoConfig.clone: a new identifier and a new passphrase
RepoConfig_clone(target, self, map, next) ==
    Cloned({Conf("repo", identify_free_filename(target, "repo"), next, 0, 0, {}, next + 1)},
           next, MapSet(map, self.id, next), next + 2)

\* BuildConfig.clone, InstallConfig.clone, DomainConfig.clone, RepoConfig.clone
\* of self, loaded in source, into target; other: target is another root
clone(source, target, self, other, map, next) ==
    IF self.kind = "repo" THEN RepoConfig_clone(target, self, map, next)
    ELSE IF get_repo_conf(source, self.repo) = NoConf THEN CloneRaised(map, next)
    ELSE LET rconf == get_repo_conf(source, self.repo)
             rc == RepoConfig_clone(target, rconf, map, next)
             nuid == rc.next
             path == identify_free_filename(target, self.kind)
             done(new) == Cloned(rc.added \cup {new}, nuid,
                                 MapSet(MapSet(rc.map, self.id, nuid), rconf.id, rc.nuid), rc.next + 1)
         IN  IF self.kind = "build"
             THEN done(Conf("build", path, nuid, rc.nuid, 0, {}, 0))
             ELSE IF self.kind = "domain"
             THEN done(Conf("domain", path, nuid, rc.nuid, 0, self.members, 0))
             ELSE \* install: the build configuration of the clone
                  LET brconf == get_repo_conf(source, self.build)
                      builds == {b \in get_referenced_by_configurations(source, brconf) : b.kind = "build"}
                      cid == IF builds = {} THEN 0 ELSE MapGet(rc.map, (CHOOSE b \in builds : TRUE).id)
                      bconf == IF builds = {} THEN NoConf
                               ELSE IF other
                               THEN (IF \E b \in target : b.kind = "build" /\ b.id = cid
                                     THEN CHOOSE b \in target : b.kind = "build" /\ b.id = cid
                                     ELSE NoConf)
                               ELSE CHOOSE b \in builds : TRUE
                  IN  IF brconf = NoConf \/ bconf = NoConf \/ bconf.repo = 0
                      THEN CloneRaised(rc.map, rc.next)
                      ELSE done(Conf("install", path, nuid, rc.nuid, bconf.repo, {}, 0))

EmptyRoots == [r \in RootNames |-> {}]
NoOp == [name |-> "", root |-> "A", target |-> "A", self |-> NoConf, keep |-> {},
         raised |-> FALSE, before |-> {}, nuid |-> 0]

CfgInit ==
    cfg = [pc |-> "ready", roots |-> EmptyRoots, next |-> 1, made |-> 0, clones |-> 0,
           map |-> {}, g |-> [raised |-> FALSE, ids |-> <<>>, confs |-> {}], op |-> NoOp]

\* the identifiers of the files of a root are all different
UniqueIds(root) == \A a \in root : \A b \in root : a.id = b.id => a = b

\* the configurations of a root as loaded, when the loading succeeds
Loaded(root) == GlobalConfiguration(root).confs
Loads(root) == ~GlobalConfiguration(root).raised

\* create_new of a build, an install or a domain configuration in the root
\* A, with its repository; the members of a domain are set afterwards
CfgCreate ==
    /\ cfg.pc = "ready" /\ cfg.made < MaxConfigs
    /\ \E kind \in {"build", "install", "domain"} :
       \E bconf \in {b \in cfg.roots["A"] : b.kind = "build" /\ kind = "install"} \cup {c \in {NoConf} : kind # "install"} :
       \E members \in SUBSET {c.id : c \in {i \in cfg.roots["A"] : i.kind = "install" /\ kind = "domain"}} :
       \E r \in {Conf("repo", identify_free_filename(cfg.roots["A"], "repo"), cfg.next, 0, 0, {}, cfg.next + 1)} :
          cfg' = [cfg EXCEPT !.roots["A"] = @ \cup {r, Conf(kind, identify_free_filename(@, kind), cfg.next + 2,
                                                             r.id, bconf.repo, members, 0)},
                             !.next = @ + 3, !.made = @ + 1, !.op = NoOp]
    /\ UNCHANGED notCfg

\* a configuration file is written by hand into the root A, as a copy of
\* an existing one or under its identifier
CfgCopyIn ==
    /\ cfg.pc = "ready" /\ cfg.made < MaxConfigs /\ cfg.clones = 0
    /\ \E e \in cfg.roots["A"] : \E kind \in KindSet : \E file \in 0..MaxFiles :
          /\ \A o \in cfg.roots["A"] : ~(o.kind = kind /\ o.file = file)
          /\ cfg' = [cfg EXCEPT !.roots["A"] = @ \cup {[e EXCEPT !.kind = kind, !.file = file]},
                                !.made = @ + 1, !.op = NoOp]
    /\ UNCHANGED notCfg

\* GlobalConfiguration(path)
CfgLoad ==
    /\ cfg.pc = "ready"
    /\ \E root \in RootNames : \E g \in {GlobalConfiguration(cfg.roots[root])} :
          cfg' = [cfg EXCEPT !.g = g,
                             !.op = [NoOp EXCEPT !.name = "load", !.root = root, !.raised = g.raised,
                                                 !.before = cfg.roots[root]]]
    /\ UNCHANGED notCfg

\* conf.remove(must_be_kept) on a configuration of the root A, no
\* identifier being used twice in the root
CfgRemove ==
    /\ cfg.pc = "ready" /\ cfg.clones < MaxClones
    /\ Loads(cfg.roots["A"]) /\ UniqueIds(cfg.roots["A"])
    /\ \E confs \in {Loaded(cfg.roots["A"])} : \E self \in confs :
       \E keep \in {k \in SUBSET confs : Cardinality(k) <= MaxKeep} :
          cfg' = [cfg EXCEPT !.roots["A"] = @ \ remove(confs, self, keep),
                             !.clones = @ + 1,
                             !.op = [NoOp EXCEPT !.name = "remove", !.self = self, !.keep = keep,
                                                 !.before = confs]]
    /\ UNCHANGED notCfg

\* conf.clone(other_global_conf, descr, map), with the map of the previous
\* call or without a map, no identifier being used twice in a root
CfgClone ==
    /\ cfg.pc = "ready" /\ cfg.clones < MaxClones
    /\ \E root \in RootNames : \E target \in RootNames : \E fresh \in BOOLEAN :
          /\ Loads(cfg.roots[root]) /\ Loads(cfg.roots[target])
          /\ UniqueIds(cfg.roots[root]) /\ UniqueIds(cfg.roots[target])
          /\ \E self \in {c \in Loaded(cfg.roots[root]) : c.kind \in {"build", "install", "domain", "repo"}} :
             \E r \in {clone(Loaded(cfg.roots[root]), cfg.roots[target], self, target # root,
                             IF fresh THEN {} ELSE cfg.map, cfg.next)} :
                cfg' = [cfg EXCEPT !.roots[target] = @ \cup r.added, !.map = r.map, !.next = r.next,
                                   !.clones = @ + 1,
                                   !.op = [NoOp EXCEPT !.name = "clone", !.root = root, !.target = target,
                                                       !.self = self, !.raised = r.raised,
                                                       !.before = cfg.roots[target], !.nuid = r.nuid]]
    /\ UNCHANGED notCfg

NextConfigs == CfgCreate \/ CfgCopyIn \/ CfgLoad \/ CfgRemove \/ CfgClone

InitConfigs ==
    /\ KeyInit /\ FcIdle /\ fc_tree = EmptyTree
    /\ CfgInit /\ um = UmIdle /\ stg = StgIdle /\ brg = BrgIdle /\ dvc = DvcIdle /\ syn = SynIdle /\ MoreIdle

SpecConfigs == InitConfigs /\ [][NextConfigs]_vars

\* C14: a loading which finds two files with the same identifier raises,
\* and after a loading which succeeds no identifier is held twice by the
\* object.
C14_DuplicateIdIsFatal ==
    (cfg.op.name = "load")
        => /\ ~UniqueIds(cfg.op.before) => cfg.g.raised
           /\ ~cfg.g.raised => (UniqueIds(cfg.g.confs)
                                  /\ \A i \in 1..Len(cfg.g.ids) : \A j \in 1..Len(cfg.g.ids) :
                                        cfg.g.ids[i] = cfg.g.ids[j] => i = j)

\* C15: remove(keep_set) deletes no configuration which another
\* configuration still references, unless that other one is in keep_set.
C15_RemoveKeepsReferenced ==
    (cfg.op.name = "remove")
        => \A d \in cfg.op.before \ cfg.roots["A"] :
              \A c \in get_referenced_by_configurations(cfg.op.before, d) :
                 c = cfg.op.self \/ c \in cfg.op.keep

\* the files deleted by the last call, which was a remove()
Deleted == cfg.op.before \ cfg.roots["A"]
\* the repository of the configuration removed
OwnRepo == {r \in cfg.op.before : r.kind = "repo" /\ r.id = cfg.op.self.repo /\ cfg.op.self.kind # "repo"}

\* C15, amended: remove(keep_set) deletes the configuration, unless it is
\* in keep_set, and then the repository of the configuration, unless that
\* repository is in keep_set; it deletes nothing else and nothing which is
\* in keep_set.  The references of the other configurations are not looked
\* at.
C15_RemoveDeletesUnkeptOnly ==
    (cfg.op.name = "remove")
        => /\ Deleted \cap cfg.op.keep = {}
           /\ Deleted \subseteq {cfg.op.self} \cup OwnRepo
           /\ cfg.op.self \in cfg.op.keep => Deleted = {}
           /\ cfg.op.self \notin cfg.op.keep => Deleted = ({cfg.op.self} \cup OwnRepo) \ cfg.op.keep

\* a build configuration was removed with its repository, which an install
\* configuration left in the root references
C15_Witness ==
    /\ cfg.op.name = "remove" /\ cfg.op.self.kind = "build" /\ cfg.op.keep = {}
    /\ OwnRepo # {} /\ OwnRepo \subseteq Deleted
    /\ \E c \in cfg.roots["A"] : c.kind = "install" /\ c.build = cfg.op.self.repo

\* the clone made by the last call, in the target root
TheClone == CHOOSE c \in cfg.roots[cfg.op.target] : c.id = cfg.op.nuid

\* C16: after a clone() the clone has a new identifier, its repository is
\* a new one with a new identifier and a new passphrase, every identifier
\* the clone references is the one of a configuration of the target root,
\* and no identifier is held twice in the target root.
C16_CloneRewritesReferences ==
    (cfg.op.name = "clone" /\ ~cfg.op.raised /\ cfg.op.self.kind # "repo")
        => /\ \E c \in cfg.roots[cfg.op.target] : c.id = cfg.op.nuid
           /\ TheClone.kind = cfg.op.self.kind /\ TheClone.id # cfg.op.self.id
           /\ UniqueIds(cfg.roots[cfg.op.target])
           /\ \E r \in cfg.roots[cfg.op.target] \ cfg.op.before :
                 /\ r.kind = "repo" /\ r.id = TheClone.repo /\ r.id # cfg.op.self.repo
                 /\ \A o \in cfg.roots[cfg.op.root] \ {r} : o.kind = "repo" => o.pass # r.pass
                 /\ MapGet(cfg.map, cfg.op.self.repo) = r.id
           /\ MapGet(cfg.map, cfg.op.self.id) = cfg.op.nuid
           /\ \A id \in (TheClone.members \cup {TheClone.build}) \ {0} :
                 \E c \in cfg.roots[cfg.op.target] : c.id = id

(***************************************************************************)
(* The listing of the archives of a repository (lib/Borg.py).  An archive  *)
(* is a name and the second of its creation, as "borg list" prints it.     *)
(***************************************************************************)
notBrg == <<keyVars, fcVars, um, stg, cfg, dvc, syn, moreVars>>

\* archives created in the repository during a behaviour
MaxListed == 3
\* seconds which go by during a behaviour
MaxClock == 2

ArchiveNames == {"a1", "b2", "c3", "d4"}
NoArchive == "None"

\* "borg list" prints the archives by increasing timestamp: out is one of
\* its possible outputs for the repository
IsBorgList(out, repo) ==
    /\ Len(out) = Cardinality(repo)
    /\ \A a \in repo : \E i \in 1..Len(out) : out[i] = a
    /\ \A i \in 1..Len(out) : \A j \in 1..Len(out) : i < j => out[i].ts <= out[j].ts

\* a dict as the sequence of its items, in the order of insertion:
\* res[ts]=name
DictSet(res, ts, name) ==
    IF \E i \in 1..Len(res) : res[i].ts = ts
    THEN [i \in 1..Len(res) |-> IF res[i].ts = ts THEN [ts |-> ts, name |-> name] ELSE res[i]]
    ELSE Append(res, [ts |-> ts, name |-> name])

\* the first archive printed for a timestamp is the one kept
RECURSIVE get_all_archives_keep_first(_)
get_all_archives_keep_first(out) ==
    IF out = <<>> THEN <<>>
    ELSE LET res == get_all_archives_keep_first(SubSeq(out, 1, Len(out) - 1))
             line == out[Len(out)]
         IN  IF \E i \in 1..Len(res) : res[i].ts = line.ts THEN res
             ELSE Append(res, [ts |-> line.ts, name |-> line.name])

\* get_all_archives: the loop over the lines of the output
RECURSIVE get_all_archives(_)
get_all_archives(out) ==
    IF out = <<>> THEN <<>>
    ELSE LET line == out[Len(out)]
         IN  DictSet(get_all_archives(SubSeq(out, 1, Len(out) - 1)), line.ts, line.name)

\* get_latest_archive: the item of the greatest key
get_latest_archive(arlist) ==
    IF Len(arlist) > 0
    THEN CHOOSE e \in {arlist[i] : i \in 1..Len(arlist)} :
            \A i \in 1..Len(arlist) : arlist[i].ts <= e.ts
    ELSE [ts |-> 0, name |-> NoArchive]

BrgInit ==
    brg = [pc |-> "ready", repo |-> {}, clock |-> 1, out |-> <<>>, arlist |-> <<>>,
           latest |-> [ts |-> 0, name |-> NoArchive]]

\* a second goes by
BrgTick ==
    /\ brg.pc \in {"ready", "listed"} /\ brg.clock < MaxClock
    /\ brg' = [brg EXCEPT !.clock = @ + 1, !.pc = "ready"]
    /\ UNCHANGED notBrg

\* create_archive: an archive of a new name is made now
BrgCreate ==
    /\ brg.pc \in {"ready", "listed"} /\ Cardinality(brg.repo) < MaxListed
    /\ \E name \in ArchiveNames \ {a.name : a \in brg.repo} :
          brg' = [brg EXCEPT !.repo = @ \cup {[ts |-> brg.clock, name |-> name]}, !.pc = "ready"]
    /\ UNCHANGED notBrg

\* get_all_archives() and get_latest_archive() on the repository
BrgList ==
    /\ brg.pc = "ready"
    /\ \E out \in {o \in UNION {[1..n -> brg.repo] : n \in {Cardinality(brg.repo)}} : IsBorgList(o, brg.repo)} :
       \E arlist \in {get_all_archives(out)} :
          brg' = [brg EXCEPT !.pc = "listed", !.out = out, !.arlist = arlist,
                             !.latest = get_latest_archive(arlist)]
    /\ UNCHANGED notBrg

NextBorg == BrgTick \/ BrgCreate \/ BrgList

InitBorg ==
    /\ KeyInit /\ FcIdle /\ fc_tree = EmptyTree
    /\ BrgInit /\ um = UmIdle /\ stg = StgIdle /\ cfg = CfgIdle /\ dvc = DvcIdle /\ syn = SynIdle /\ MoreIdle

SpecBorg == InitBorg /\ [][NextBorg]_vars

Listed == brg.pc = "listed"
\* the place of an archive in the output of "borg list"
PlaceOf(a) == CHOOSE i \in 1..Len(brg.out) : brg.out[i] = a

\* C17: the listing holds every archive of the repository, by increasing
\* timestamp and by name for the same timestamp, and get_latest_archive
\* returns its last entry.
C17_EveryArchiveListed ==
    Listed =>
        /\ \A a \in brg.repo : \E i \in 1..Len(brg.arlist) : brg.arlist[i] = a
        /\ \A i \in 1..Len(brg.arlist) : \A j \in 1..Len(brg.arlist) :
              i < j => \/ brg.arlist[i].ts < brg.arlist[j].ts
                       \/ brg.arlist[i].ts = brg.arlist[j].ts /\ brg.arlist[i].name # brg.arlist[j].name
        /\ brg.repo # {} => brg.latest = brg.arlist[Len(brg.arlist)]

\* C17, amended: the listing holds one entry for each timestamp of the
\* repository, by increasing timestamp; of the archives made in the same
\* second it keeps the one printed last by "borg list" and drops the
\* others; get_latest_archive returns the last entry, which is the one of
\* the greatest timestamp, and (0, None) for an empty repository.
C17_OneArchivePerTimestamp ==
    Listed =>
        /\ \A i \in 1..Len(brg.arlist) : brg.arlist[i] \in brg.repo
        /\ \A a \in brg.repo : \E i \in 1..Len(brg.arlist) : brg.arlist[i].ts = a.ts
        /\ \A i \in 1..Len(brg.arlist) : \A j \in 1..Len(brg.arlist) :
              i < j => brg.arlist[i].ts < brg.arlist[j].ts
        /\ \A i \in 1..Len(brg.arlist) : \A a \in brg.repo :
              a.ts = brg.arlist[i].ts => PlaceOf(a) <= PlaceOf(brg.arlist[i])
        /\ brg.repo # {} => brg.latest = brg.arlist[Len(brg.arlist)]
        /\ brg.repo # {} => \A a \in brg.repo : a.ts <= brg.latest.ts
        /\ brg.repo = {} => (brg.arlist = <<>> /\ brg.latest = [ts |-> 0, name |-> NoArchive])

\* two archives were made in the same second and the listing has one of
\* them only, which is not the first by name
C17_Witness ==
    /\ Listed
    /\ Len(brg.arlist) < Cardinality(brg.repo)
    /\ \E a \in brg.repo : a.ts = brg.latest.ts /\ a.name # brg.latest.name
    /\ \E a \in brg.repo : a.ts = brg.latest.ts /\ PlaceOf(a) < PlaceOf(brg.latest)

(***************************************************************************)
(* The mounts of a Device object (lib/Device.py): what the object records  *)
(* in _mountpoints and what the system has mounted.                        *)
(***************************************************************************)
notDvc == <<keyVars, fcVars, um, stg, cfg, brg, syn, moreVars>>

\* writes of the partition table during a behaviour
MaxFormats == 2

\* the partitions of the device; the second one is encrypted
DevParts == {"p1", "p2"}
Encrypted(partition_id) == partition_id = "p2"
\* mount points: a temporary directory of the object, a directory given by
\* the caller, the one chosen by another program; "": not mounted
TmpDir == "/tmp/d"
GivenDir == "/mnt"
OtherDir == "/media"

\* _mountpoints as the sequence of its items, in the order of insertion
DictHas(d, k) == \E i \in 1..Len(d) : d[i].id = k
DictGet(d, k) == (CHOOSE e \in {d[i] : i \in 1..Len(d)} : e.id = k).mp
DictPut(d, k, v) ==
    IF DictHas(d, k) THEN [i \in 1..Len(d) |-> IF d[i].id = k THEN [id |-> k, mp |-> v] ELSE d[i]]
    ELSE Append(d, [id |-> k, mp |-> v])
DictDel(d, k) == SelectSeq(d, LAMBDA e : e.id # k)

\* the outcome of a method: the object and the system afterwards, and
\* whether it raised
Ret(d) == [d |-> d, raised |-> FALSE]
Raise(d) == [d |-> d, raised |-> TRUE]

\* Device.mount(partition_id, mountpoint, auto_umount=...): works is what
\* /bin/mount or the encryption layer answers
mount(d, partition_id, mountpoint, auto_umount, works) ==
    IF d.sysm[partition_id] # ""
    THEN IF mountpoint # "" /\ mountpoint # d.sysm[partition_id] THEN Raise(d) ELSE Ret(d)
    ELSE LET realmp == IF mountpoint # "" THEN mountpoint ELSE TmpDir
         IN  IF works
             THEN Ret([d EXCEPT !.mountpoints = DictPut(@, partition_id, realmp),
                                !.auto = IF auto_umount THEN @ \cup {partition_id} ELSE @,
                                !.sysm[partition_id] = realmp])
             ELSE Raise([d EXCEPT !.mountpoints = IF mountpoint = "" THEN DictDel(@, partition_id)
                                                  ELSE DictPut(@, partition_id, realmp),
                                  !.auto = IF auto_umount THEN @ \ {partition_id} ELSE @])

\* Device.umount(partition_id): busy is the set of the partitions the
\* system refuses to unmount
umount(d, partition_id, busy) ==
    IF ~DictHas(d.mountpoints, partition_id)
    THEN IF d.sysm[partition_id] = "" THEN Ret(d)
         ELSE IF partition_id \in busy THEN Raise(d)
         ELSE Ret([d EXCEPT !.sysm[partition_id] = ""])
    ELSE LET mp == DictGet(d.mountpoints, partition_id)
             forget(o) == [o EXCEPT !.mountpoints = DictDel(@, partition_id), !.auto = @ \ {partition_id}]
         IN  IF Encrypted(partition_id)
             THEN IF d.sysm[partition_id] = "" THEN Ret(forget(d))
                  ELSE IF partition_id \in busy THEN Raise(d)
                  ELSE Ret(forget([d EXCEPT !.sysm[partition_id] = ""]))
             ELSE IF d.sysm[partition_id] # mp \/ partition_id \in busy THEN Raise(d)
                  ELSE Ret(forget([d EXCEPT !.sysm[partition_id] = ""]))

\* the partitions in the order in which lsblk prints them
LsblkOrder == <<"p1", "p2">>
\* the loop of umount_all_partitions over the lines of lsblk
RECURSIVE UmountListed(_, _, _)
UmountListed(d, lines, busy) ==
    IF lines = <<>> THEN Ret(d)
    ELSE IF d.sysm[Head(lines)] = "" THEN UmountListed(d, Tail(lines), busy)
    ELSE IF Head(lines) \in busy THEN Raise(d)
    ELSE UmountListed([d EXCEPT !.sysm[Head(lines)] = ""], Tail(lines), busy)

\* umount_all_partitions(devfile): every mount point lsblk prints is
\* unmounted; nothing is done when lsblk keeps failing
umount_all_partitions(d, busy, lsblk) ==
    IF ~lsblk THEN Ret(d) ELSE UmountListed(d, LsblkOrder, busy)

\* the loop of umount_all over the keys of _mountpoints
RECURSIVE UmountEach(_, _, _)
UmountEach(d, keys, busy) ==
    IF keys = <<>> THEN Ret(d)
    ELSE LET r == umount(d, Head(keys).id, busy)
         IN  IF r.raised THEN r ELSE UmountEach(r.d, Tail(keys), busy)

\* Device.umount_all()
umount_all(d, busy, lsblk) ==
    LET r == UmountEach(d, d.mountpoints, busy)
    IN  IF r.raised THEN r ELSE umount_all_partitions(r.d, busy, lsblk)

\* the partition table is written without any unmounting
format_without_umount(d, leave, busy, lsblk) ==
    Ret([d EXCEPT !.table = @ + 1, !.wrote_with = {p \in DevParts : d.sysm[p] # ""}])

\* Device.format(specs) up to the creation of the partitions; leave: the
\* first partition of specs is "leave-existing" (the device has partitions)
format(d, leave, busy, lsblk) ==
    IF leave THEN Ret([d EXCEPT !.table = @ + 1, !.wrote_with = {p \in DevParts : d.sysm[p] # ""}])
    ELSE LET r == umount_all(d, busy, lsblk)
             w == IF r.raised THEN r ELSE umount_all_partitions(r.d, busy, lsblk)
         IN  IF w.raised THEN w
             ELSE Ret([w.d EXCEPT !.table = @ + 1, !.wrote_with = {p \in DevParts : w.d.sysm[p] # ""}])

NoDvcOp == [name |-> "", raised |-> FALSE, busy |-> {}, lsblk |-> TRUE, leave |-> FALSE,
            again |-> FALSE, before |-> [p \in DevParts |-> ""], entries |-> <<>>]

DvcInit ==
    dvc = [pc |-> "ready",
           d |-> [sysm |-> [p \in DevParts |-> ""], mountpoints |-> <<>>, auto |-> {},
                  table |-> 0, wrote_with |-> {}],
           op |-> NoDvcOp]

\* a call of mount()
DvcMount ==
    /\ dvc.pc = "ready"
    /\ \E partition_id \in DevParts : \E mountpoint \in {"", GivenDir} :
       \E auto_umount \in BOOLEAN : \E works \in BOOLEAN :
       \E r \in {mount(dvc.d, partition_id, mountpoint, auto_umount, works)} :
          dvc' = [dvc EXCEPT !.d = r.d,
                             !.op = [NoDvcOp EXCEPT !.name = "mount", !.raised = r.raised,
                                                    !.before = dvc.d.sysm, !.entries = dvc.d.mountpoints]]
    /\ UNCHANGED notDvc

\* a call of umount()
DvcUmount ==
    /\ dvc.pc = "ready"
    /\ \E partition_id \in DevParts : \E busy \in SUBSET {p \in DevParts : dvc.d.sysm[p] # ""} :
       \E r \in {umount(dvc.d, partition_id, busy)} :
          dvc' = [dvc EXCEPT !.d = r.d,
                             !.op = [NoDvcOp EXCEPT !.name = "umount", !.raised = r.raised, !.busy = busy,
                                                    !.before = dvc.d.sysm, !.entries = dvc.d.mountpoints]]
    /\ UNCHANGED notDvc

\* a call of umount_all()
DvcUmountAll ==
    /\ dvc.pc = "ready"
    /\ \E busy \in SUBSET {p \in DevParts : dvc.d.sysm[p] # ""} : \E lsblk \in BOOLEAN :
       \E r \in {umount_all(dvc.d, busy, lsblk)} :
          dvc' = [dvc EXCEPT !.d = r.d,
                             !.op = [NoDvcOp EXCEPT !.name = "umount_all", !.raised = r.raised,
                                                    !.busy = busy, !.lsblk = lsblk,
                                                    !.again = (dvc.op.name = "umount_all" /\ ~dvc.op.raised
                                                                  /\ dvc.op.lsblk),
                                                    !.before = dvc.d.sysm, !.entries = dvc.d.mountpoints]]
    /\ UNCHANGED notDvc

\* a call of format()
DvcFormat ==
    /\ dvc.pc = "ready" /\ dvc.d.table < MaxFormats
    /\ \E leave \in BOOLEAN : \E busy \in SUBSET {p \in DevParts : dvc.d.sysm[p] # ""} :
       \E lsblk \in BOOLEAN : \E r \in {format(dvc.d, leave, busy, lsblk)} :
          dvc' = [dvc EXCEPT !.d = r.d,
                             !.op = [NoDvcOp EXCEPT !.name = "format", !.raised = r.raised,
                                                    !.busy = busy, !.lsblk = lsblk, !.leave = leave,
                                                    !.before = dvc.d.sysm, !.entries = dvc.d.mountpoints]]
    /\ UNCHANGED notDvc

\* another program mounts a partition of the device
DvcOtherMount ==
    /\ dvc.pc = "ready"
    /\ \E p \in DevParts :
          /\ dvc.d.sysm[p] = ""
          /\ dvc' = [dvc EXCEPT !.d.sysm[p] = OtherDir, !.op = NoDvcOp]
    /\ UNCHANGED notDvc

NextDevice == DvcMount \/ DvcUmount \/ DvcUmountAll \/ DvcFormat \/ DvcOtherMount

InitDevice ==
    /\ KeyInit /\ FcIdle /\ fc_tree = EmptyTree
    /\ DvcInit /\ um = UmIdle /\ stg = StgIdle /\ cfg = CfgIdle /\ brg = BrgIdle /\ syn = SynIdle /\ MoreIdle

SpecDevice == InitDevice /\ [][NextDevice]_vars

NothingMounted(sysm) == \A p \in DevParts : sysm[p] = ""
\* the last call wrote the partition table
WroteTable == dvc.op.name = "format" /\ ~dvc.op.raised

\* C18: format() refuses to proceed when a partition of the device is
\* mounted.
C18_FormatRefusesWhenMounted ==
    (dvc.op.name = "format" /\ ~NothingMounted(dvc.op.before)) => dvc.op.raised

\* C18, amended: format() without "leave-existing" unmounts every
\* partition itself, those the object mounted then those lsblk lists, and
\* stops before it writes when an unmounting fails: it writes the partition
\* table with nothing of the device mounted and nothing left in
\* _mountpoints, unless lsblk kept failing.  With "leave-existing" it
\* appends the partitions without unmounting and without looking at the
\* mounts.
C18_WipeFormatsUnmounted ==
    /\ (WroteTable /\ ~dvc.op.leave /\ dvc.op.lsblk)
          => (dvc.d.wrote_with = {} /\ NothingMounted(dvc.d.sysm) /\ dvc.d.mountpoints = <<>>)
    /\ (WroteTable /\ ~dvc.op.leave)
          => (dvc.d.mountpoints = <<>> /\ \A p \in DevParts : dvc.d.sysm[p] \in {"", OtherDir})
    /\ (WroteTable /\ dvc.op.leave)
          => (dvc.d.sysm = dvc.op.before /\ dvc.d.mountpoints = dvc.op.entries
                 /\ dvc.d.wrote_with = {p \in DevParts : dvc.op.before[p] # ""})
    /\ (dvc.op.name = "format" /\ dvc.op.raised)
          => (~dvc.op.leave /\ \E p \in DevParts : dvc.d.sysm[p] # "" \/ dvc.d.mountpoints # <<>>)

\* format() was called without "leave-existing" while the object had a
\* partition mounted and another program another one, and it wrote the
\* partition table after it had unmounted both
C18_Witness ==
    /\ WroteTable /\ ~dvc.op.leave /\ dvc.op.lsblk
    /\ dvc.op.entries # <<>>
    /\ \E p \in DevParts : dvc.op.before[p] = OtherDir
    /\ dvc.d.wrote_with = {} /\ dvc.d.table > 0

\* C19: a call of umount_all() which the system does not hinder returns
\* normally and leaves no partition mounted, and a second call returns
\* normally and changes nothing.
C19_UmountAllIdempotent ==
    (dvc.op.name = "umount_all" /\ dvc.op.busy = {} /\ dvc.op.lsblk)
        => /\ ~dvc.op.raised
           /\ NothingMounted(dvc.d.sysm)
           /\ dvc.op.again => (dvc.d.sysm = dvc.op.before /\ dvc.d.mountpoints = dvc.op.entries)

(***************************************************************************)
(* Repository synchronisation: RcloneSync.sync (lib/Sync.py) called by     *)
(* LiveLinuxUpdatesGetJob.run (inseca-manager/Jobs.py).  The job and the   *)
(* rclone loop are cut at their loop heads: one action per iteration.      *)
(***************************************************************************)
\* storage sources of the device configuration
MaxTargets == 2
\* the number of the rclone process is followed up to MaxIndex; the code
\* counts on without a limit and uses the number in a log line only
MaxIndex == 3

notSyn == <<keyVars, fcVars, um, stg, cfg, brg, dvc, moreVars>>

SyncPcs == {"loop", "poll", "finish"}
ReadOutcomes == {"quiet", "oserror", "retry later", "other error"}

\* rclone run with its own defaults ends by itself with a status
ExitStatus == {"0", "1"}

SynInit ==
    syn = [pc |-> "created", unlocked |-> FALSE, target |-> 0,
           restart |-> FALSE, index |-> 0, status |-> "None",
           process |-> "none", orphans |-> 0,
           monitoring |-> FALSE, changed |-> FALSE,
           result |-> "None", exception |-> ""]

\* the job ends with an exception
JobRaise(s, msg) == [s EXCEPT !.pc = "done", !.exception = msg]

\* NetworkMonitor.stop()
nm_stop(s) == [s EXCEPT !.monitoring = FALSE]

\* LiveLinuxUpdatesGetJob.run is started
JobRun ==
    /\ syn.pc = "created"
    /\ syn' = [syn EXCEPT !.pc = "wait_unlock"]
    /\ UNCHANGED notSyn

\* the user unlocks the device: /internal/credentials appears
Unlock ==
    /\ syn.pc \in {"created", "wait_unlock"}
    /\ ~syn.unlocked
    /\ syn' = [syn EXCEPT !.unlocked = TRUE]
    /\ UNCHANGED notSyn

\* the job's wait for the device to be unlocked, one look per minute
JobWaitUnlock ==
    /\ syn.pc = "wait_unlock"
    /\ syn.unlocked
    /\ syn' = [syn EXCEPT !.pc = "target", !.target = 1]
    /\ UNCHANGED notSyn

\* one turn of "for target in section" up to the call of rclone.sync(),
\* which sets restart, status and index and creates the NetworkMonitor
JobTarget ==
    /\ syn.pc = "target"
    /\ \E has_conf \in BOOLEAN, internet \in BOOLEAN :
        syn' = IF syn.target > MaxTargets
                 THEN [syn EXCEPT !.pc = "done", !.result = "0"]
               ELSE IF ~has_conf
                 THEN [syn EXCEPT !.target = @ + 1]
               ELSE IF ~internet
                 THEN JobRaise(syn, "No Internet access")
               ELSE [syn EXCEPT !.pc = "loop", !.restart = TRUE,
                                !.status = "None", !.index = 0,
                                !.process = "none", !.orphans = 0,
                                !.monitoring = TRUE, !.changed = FALSE]
    /\ UNCHANGED notSyn

\* head of "while restart": the availability checks, then a new rclone
\* process; the process of the previous turn is left as it is: when it is
\* still running it goes on, no longer watched (orphans counts these
\* processes up to MaxIndex)
SyncStart ==
    /\ syn.pc = "loop"
    /\ \E dest_ok \in BOOLEAN, src_ok \in BOOLEAN :
        syn' = IF ~dest_ok
                 THEN JobRaise(nm_stop(syn), "Resource's destination is not available")
               ELSE IF ~src_ok
                 THEN JobRaise(nm_stop(syn), "Resource's origin is not available")
               ELSE [syn EXCEPT !.index = IF @ < MaxIndex THEN @ + 1 ELSE @,
                                !.orphans = IF syn.process = "running" /\ @ < MaxIndex
                                              THEN @ + 1 ELSE @,
                                !.process = "running",
                                !.status = "None",
                                !.pc = "poll"]
    /\ UNCHANGED notSyn

\* NetworkManager reports a change and the monitor's timer sets the flag
NetChange ==
    /\ syn.monitoring
    /\ ~syn.changed
    /\ syn' = [syn EXCEPT !.changed = TRUE]
    /\ UNCHANGED notSyn

\* an rclone process that is no longer watched ends by itself
OrphanExit ==
    /\ syn.orphans > 0
    /\ syn' = [syn EXCEPT !.orphans = @ - 1]
    /\ UNCHANGED notSyn

\* the rclone process that sync() watches ends by itself
RcloneExit ==
    /\ syn.pc = "poll"
    /\ syn.process = "running"
    /\ \E st \in ExitStatus : syn' = [syn EXCEPT !.process = st]
    /\ UNCHANGED notSyn

\* one turn of the inner "while True" of sync(); reading nm.changed
\* resets the flag
sync_turn(s, outcome) ==
    IF s.changed
      THEN [s EXCEPT !.changed = FALSE, !.restart = TRUE, !.pc = "loop"]
    ELSE IF s.process \in ExitStatus
      THEN [s EXCEPT !.status = s.process, !.restart = FALSE, !.pc = "finish"]
    ELSE IF outcome = "quiet"
      THEN s
    ELSE IF outcome = "retry later"
      THEN [s EXCEPT !.restart = TRUE, !.pc = "loop"]
    ELSE [s EXCEPT !.restart = FALSE, !.pc = "finish"]

SyncIterate ==
    /\ syn.pc = "poll"
    /\ \E outcome \in ReadOutcomes : syn' = sync_turn(syn, outcome)
    /\ UNCHANGED notSyn

\* a turn in which reading the output of rclone raises nothing
SyncQuietTurn ==
    /\ syn.pc = "poll"
    /\ syn' = sync_turn(syn, "quiet")
    /\ UNCHANGED notSyn

\* after the loop: the process is killed, the monitor stopped, and the
\* status decides between return and "Data synchronisation error"
SyncFinish ==
    /\ syn.pc = "finish"
    /\ syn' = IF syn.status \notin {"None", "0"}
                THEN JobRaise([nm_stop(syn) EXCEPT !.process = "killed"],
                              "Data synchronisation error")
              ELSE [nm_stop(syn) EXCEPT !.process = "killed", !.pc = "check"]
    /\ UNCHANGED notSyn

\* the job's work on the fetched repository: an update is staged, or
\* there is none and the next target is tried, or Borg raises
JobCheck ==
    /\ syn.pc = "check"
    /\ \E found \in {"update", "none", "error"} :
        syn' = IF found = "update"
                 THEN [syn EXCEPT !.pc = "done", !.result = "1"]
               ELSE IF found = "none"
                 THEN [syn EXCEPT !.pc = "target", !.target = @ + 1]
               ELSE JobRaise(syn, "Borg error")
    /\ UNCHANGED notSyn

NextSync ==
    \/ JobRun \/ Unlock \/ JobWaitUnlock \/ JobTarget
    \/ SyncStart \/ NetChange \/ RcloneExit \/ OrphanExit \/ SyncIterate \/ SyncFinish
    \/ JobCheck

InitSync ==
    /\ KeyInit /\ FcIdle /\ fc_tree = EmptyTree
    /\ SynInit /\ um = UmIdle /\ stg = StgIdle /\ cfg = CfgIdle /\ brg = BrgIdle /\ dvc = DvcIdle /\ MoreIdle

SpecSync == InitSync /\ [][NextSync]_vars

\* The job's thread and the loop of sync() keep running (their sleeps are
\* finite), and an rclone process that is watched long enough ends by
\* itself.  Nothing is assumed of the user, of the network or of errors.
SyncFairness ==
    /\ WF_vars(JobRun) /\ WF_vars(JobWaitUnlock) /\ WF_vars(JobTarget)
    /\ WF_vars(SyncStart) /\ WF_vars(SyncQuietTurn)
    /\ WF_vars(SyncFinish) /\ WF_vars(JobCheck)
    /\ WF_vars(RcloneExit)

SpecSyncFair == SpecSync /\ SyncFairness

\* C20: a repository synchronisation restarts or retries a bounded number
\* of times only: once sync() has been entered, it ends (it returns or
\* raises), whatever the network changes and the failures are.
C20_SyncTerminates == (syn.pc \in SyncPcs) ~> (syn.pc \notin SyncPcs)

(***************************************************************************)
(* The inter-partition hash at the level of the bytes of the device:       *)
(* Device.compute_inter_partitions_hash (lib/Device.py) and                *)
(* compute_file_hash (lib/FingerprintHash.py).                             *)
(***************************************************************************)
\* bytes per sector and sectors of the devices of this harness
SectorSize == 2
DevSectors == 40
\* bytes changed on the device after the fingerprint was sealed
MaxTampers == 2
\* compute_file_hash reads BUF_SIZE bytes at a time
BUF_SIZE == 524288
\* first sector after the partition table
DosFirst == 1
GptFirst == 34

notIph == <<keyVars, fcVars, um, stg, cfg, brg, dvc, syn, prt, bld, pidp, evt>>

PartData(id, first, last) == [id |-> id, start |-> first, end |-> last]
\* layouts lsblk may report: partitions made by fdisk with spaces between
\* them, and an image written with two partitions side by side
Layouts ==
    { [type |-> "dos", partitions |-> <<PartData("a", 3, 5), PartData("b", 8, 20)>>],
      [type |-> "dos", partitions |-> <<PartData("a", 2, 9), PartData("b", 13, 30)>>],
      [type |-> "gpt", partitions |-> <<PartData("a", 36, 37)>>],
      [type |-> "dos", partitions |-> <<PartData("a", 4, 9), PartData("b", 10, 30)>>] }

DevBytes == 0 .. (DevSectors * SectorSize - 1)
ZeroDisk == [b \in DevBytes |-> 0]

HashRaised == S("raised")

RECURSIVE ReadLoop(_, _, _, _)
\* the "while True" of compute_file_hash: what is fed to sha256 from the
\* position start_byte + bytesread on
ReadLoop(disk, start_byte, end_byte, bytesread) ==
    LET to_read == IF bytesread + BUF_SIZE >= end_byte - start_byte
                     THEN end_byte - start_byte - bytesread
                     ELSE BUF_SIZE
        pos == start_byte + bytesread
        avail == DevSectors * SectorSize - pos
        got == IF to_read < avail THEN to_read ELSE avail
    IN  IF got <= 0 THEN <<>>
        ELSE [j \in 1..got |-> disk[pos + j - 1]] \o
             ReadLoop(disk, start_byte, end_byte, bytesread + got)

\* compute_file_hash(filename, start_byte, end_byte)
compute_file_hash(disk, start_byte, end_byte) ==
    IF end_byte < start_byte THEN HashRaised
    ELSE Sha256(Bytes(ReadLoop(disk, start_byte, end_byte, 0)))

RECURSIVE InterLoop(_, _, _, _, _)
\* the loop of compute_inter_partitions_hash from partition j on
InterLoop(disk, partitions, j, istart, hash) ==
    IF j > Len(partitions) THEN hash
    ELSE LET iend == partitions[j].start - 1
             ihash == compute_file_hash(disk, istart * SectorSize, iend * SectorSize)
         IN  IF ihash = HashRaised THEN HashRaised
             ELSE InterLoop(disk, partitions, j + 1, partitions[j].end + 1,
                            chain_integity_hash(hash, ihash))

\* Device.compute_inter_partitions_hash on a device holding these bytes
inter_partitions_hash(disk, layout) ==
    InterLoop(disk, layout.partitions, 1,
              IF layout.type = "dos" THEN DosFirst ELSE GptFirst,
              S("Let's not start at zero!"))

\* the sectors between the previous boundary and partition j
GapSectors(layout, j) ==
    LET prev == IF j = 1
                  THEN (IF layout.type = "dos" THEN DosFirst ELSE GptFirst)
                  ELSE layout.partitions[j - 1].end + 1
    IN  prev .. (layout.partitions[j].start - 1)
GapBytes(layout) ==
    { b \in DevBytes : \E j \in 1..Len(layout.partitions) :
                          (b \div SectorSize) \in GapSectors(layout, j) }
\* the bytes of the last sector of a space
LastSectorBytes(layout) ==
    { b \in DevBytes : \E j \in 1..Len(layout.partitions) :
          /\ GapSectors(layout, j) # {}
          /\ (b \div SectorSize) = layout.partitions[j].start - 1 }

IphInit ==
    \E layout \in Layouts :
        iph = [pc |-> "new", layout |-> layout, disk |-> ZeroDisk,
               sealed |-> None, changed |-> {}, now |-> None]

\* the installation computes the hash that goes into the fingerprint
IphSeal ==
    /\ iph.pc = "new"
    /\ iph' = [iph EXCEPT !.pc = "sealed",
                          !.sealed = inter_partitions_hash(iph.disk, iph.layout)]
    /\ UNCHANGED notIph

\* somebody writes one byte of the device outside the partitions
IphTamper ==
    /\ iph.pc \in {"sealed", "booted"}
    /\ Cardinality(iph.changed) < MaxTampers
    /\ \E b \in GapBytes(iph.layout) \ iph.changed :
        iph' = [iph EXCEPT !.pc = "sealed", !.disk[b] = 1, !.changed = @ \cup {b}]
    /\ UNCHANGED notIph

\* the boot computes the hash again
IphBoot ==
    /\ iph.pc = "sealed"
    /\ iph' = [iph EXCEPT !.pc = "booted",
                          !.now = inter_partitions_hash(iph.disk, iph.layout)]
    /\ UNCHANGED notIph

NextIph == IphSeal \/ IphTamper \/ IphBoot

InitIph ==
    /\ KeyInit /\ FcIdle /\ fc_tree = EmptyTree
    /\ IphInit /\ um = UmIdle /\ stg = StgIdle /\ cfg = CfgIdle /\ brg = BrgIdle
    /\ dvc = DvcIdle /\ syn = SynIdle
    /\ prt = PrtIdle /\ bld = BldIdle /\ pidp = PidpIdle /\ evt = EvtIdle

SpecIph == InitIph /\ [][NextIph]_vars

\* C21: the inter-partition hash covers every byte between the previous
\* boundary and the first sector of each partition, the last sector of the
\* space included: once a byte of such a space has been changed, the hash
\* computed at boot differs from the sealed one.
C21_EveryGapByteHashed ==
    (iph.pc = "booted" /\ iph.sealed # HashRaised /\ iph.changed # {})
        => iph.now # iph.sealed

(***************************************************************************)
(* The boot parameters file in the hash of the EFI partition.              *)
(***************************************************************************)
\* C22: the boot-params file of the EFI partition is tolerated only when
\* its content equals one of the two canonical slot files: start() unlocks
\* the key only if bootparams0.cfg and bootparams1.cfg exist and
\* boot/grub/bootparams.cfg equals one of them.
C22_BootParamsCanonical ==
    (hist.job = "start" /\ pc = "unlocked") => _efi_ignore(efi, BOOTPARAMS) = "True"

(***************************************************************************)
(* The decryptions _unlock_blob0 performs while it looks for the slot.     *)
(***************************************************************************)
RECURSIVE decrypt_attempts(_, _)
\* the calls of decrypt() made by the loop of _unlock_blob0 over these
\* slots: the hardened password, then the plain one when the first raised,
\* up to the first slot that opens
decrypt_attempts(slots, user_password) ==
    IF slots = <<>> THEN 0
    ELSE IF Decrypts(harden_password_for_blob0(user_password, Head(slots).sub[2]),
                     Head(slots).sub[3])
      THEN 1
    ELSE IF Decrypts(user_password, Head(slots).sub[3])
      THEN 2
    ELSE 2 + decrypt_attempts(Tail(slots), user_password)

\* the same slots in every order json.loads may give them
Orders(slots) ==
    { [j \in 1..Len(slots) |-> slots[p[j]]] : p \in Permutations(1..Len(slots)) }
\* the passwords CryptoPassword accepts
StrongSecrets == { s \in Secrets : s.i >= 10 }

\* C23: locating the user's slot takes a constant number of decryption
\* attempts: once _unlock_blob0 has run over the slots of the key, the
\* attempts it made are as many as for any other password and any other
\* order of the same slots.
C23_ConstantAttempts ==
    (hist.job = "start" /\ loc.secret \in StrongSecrets /\ hasfile(dummy, BLOB0)
        /\ (pc = "s_blob1" \/ (pc = "login" /\ hist.failed_at = "s_blob0")))
    => \A pw \in StrongSecrets : \A order \in Orders(Slots(dummy)) :
          decrypt_attempts(order, pw) = decrypt_attempts(Slots(dummy), loc.secret)

(***************************************************************************)
(* The sectors of the partitions _create_partition adds (lib/Device.py).   *)
(* The code computes with Python floats; here a number of sectors that may *)
(* be fractional is kept as its number of bytes, which is whole.           *)
(***************************************************************************)
\* partitions created on one device
MaxParts == 3
\* MB kept free at the end of the device
end_reserved_space == 5
\* bytes in one MB
MegaByte == 1000000
\* multiple the sectors are aligned to
Alignment == 2048
\* lowest start sector on a GPT or hybrid device
GptMinStart == 65535
\* bytes per sector reported by the devices
HwSectorSize == 512

notPrt == <<keyVars, fcVars, um, stg, cfg, brg, dvc, syn, iph, bld, pidp, evt>>

\* int(n/d) of Python: the quotient cut towards zero
IntDiv(n, d) == IF n >= 0 THEN n \div d ELSE -((-n) \div d)

\* _align_boundary(sector) for the sector bytes/sectorsize
_align_boundary(bytes, sectorsize) ==
    (IntDiv(bytes - sectorsize, sectorsize * Alignment) + 1) * Alignment

\* _create_partition(devfile, disktype, is_first, pspec, min_start_sector)
\* without "leave-existing" and "iso-file": the sectors given to fdisk, or
\* the exception raised before fdisk is run
create_partition_sectors(disksize, sectorsize, disktype, pspec, min_start_sector) ==
    LET min0 == IF disktype \in {"gpt", "hybrid"} /\ min_start_sector < GptMinStart
                  THEN GptMinStart ELSE min_start_sector
        start == _align_boundary(min0 * sectorsize, sectorsize)
        max_end == disksize - end_reserved_space * MegaByte
        wanted == IF ~pspec.has_size THEN max_end
                  ELSE IF pspec.size_mb > 0
                    THEN (IF start * sectorsize + pspec.size_mb * MegaByte > max_end
                            THEN max_end
                            ELSE start * sectorsize + pspec.size_mb * MegaByte)
                  ELSE max_end + pspec.size_mb * MegaByte
        end_sector == _align_boundary(wanted, sectorsize)
    IN  IF pspec.has_size /\ pspec.size_mb <= 0 /\ wanted < start * sectorsize
          THEN [raised |-> TRUE, start |-> 0, end |-> 0]
        ELSE IF end_sector - start <= 0
          THEN [raised |-> TRUE, start |-> 0, end |-> 0]
        ELSE [raised |-> FALSE, start |-> start, end |-> end_sector]

DiskSizes == {64000000, 67108864, 100000000, 134217728}
SizeSpecs ==
    {[has_size |-> FALSE, size_mb |-> 0]} \cup
    {[has_size |-> TRUE, size_mb |-> m] : m \in {-40, -1, 0, 1, 10, 30, 1000}}

PrtInit ==
    \E disksize \in DiskSizes, disktype \in {"dos", "gpt", "hybrid"} :
        prt = [pc |-> "wiped", disksize |-> disksize, disktype |-> disktype,
               min_start_sector |-> 1, parts |-> <<>>, raised |-> FALSE,
               pspec |-> [has_size |-> FALSE, size_mb |-> 0]]

\* one turn of "for pspec in specs['partitions']" of Device.format: fdisk
\* creates the partition on the sectors it is given, and refuses sectors
\* the device does not have
PrtCreate ==
    /\ prt.pc = "wiped"
    /\ ~prt.raised
    /\ Len(prt.parts) < MaxParts
    /\ \E pspec \in SizeSpecs :
       \E r \in {create_partition_sectors(prt.disksize, HwSectorSize, prt.disktype,
                                          pspec, prt.min_start_sector)} :
          prt' = IF r.raised \/ (r.end + 1) * HwSectorSize > prt.disksize
                   THEN [prt EXCEPT !.raised = TRUE, !.pspec = pspec]
                   ELSE [prt EXCEPT !.parts = Append(@, [start |-> r.start, end |-> r.end]),
                                    !.min_start_sector = r.end + 1,
                                    !.pspec = pspec]
    /\ UNCHANGED notPrt

NextPrt == PrtCreate

InitPrt ==
    /\ KeyInit /\ FcIdle /\ fc_tree = EmptyTree
    /\ PrtInit /\ um = UmIdle /\ stg = StgIdle /\ cfg = CfgIdle /\ brg = BrgIdle
    /\ dvc = DvcIdle /\ syn = SynIdle
    /\ iph = IphIdle /\ bld = BldIdle /\ pidp = PidpIdle /\ evt = EvtIdle

SpecPrt == InitPrt /\ [][NextPrt]_vars

\* C24: whatever the size specification is, a partition created by
\* _create_partition starts on a multiple of 2048 sectors and its last
\* sector lies before the space reserved at the end of the device (taken
\* here as the 5,000,000 bytes the code computes with).
C24_AlignedBeforeReserved ==
    \A j \in 1..Len(prt.parts) :
        /\ prt.parts[j].start % Alignment = 0
        /\ (prt.parts[j].end + 1) * HwSectorSize
               <= prt.disksize - end_reserved_space * MegaByte

(***************************************************************************)
(* The specifications Builder (lib/SpecBuilder.py): a template is          *)
(* validated when the Builder is created, and get_specifications returns   *)
(* its "dev-format" section with the variables replaced.                   *)
(***************************************************************************)
\* partition descriptors of a template
MaxPartSpecs == 2

notBld == <<keyVars, fcVars, um, stg, cfg, brg, dvc, syn, iph, prt, pidp, evt>>

\* the ids written in the templates; "{x}" refers to the parameter x
PartIds == {"a", "b", "{x}"}
PartKinds == {"leave-existing", "iso-file", "partition"}
\* a descriptor: its kind, its id, and whether its keys are those the
\* kind allows (all of them for a plain partition)
PSpecs == [kind : PartKinds, id : PartIds, keys_ok : BOOLEAN]
PSpecLists == UNION { [1..n -> PSpecs] : n \in 1..MaxPartSpecs }
NoHybrid == <<"-">>
HybridLists == {NoHybrid, <<>>, <<"a">>, <<"b">>, <<"{x}">>}
\* templ: toplevel_ok stands for the checks of the top-level keys, of the
\* parameters, of the device and of the unprotected section
Templates ==
    [toplevel_ok : BOOLEAN, params : SUBSET {"x"}, type : {"gpt", "dos", "hybrid"},
     partitions : PSpecLists, hybrid : HybridLists, protected : {"", "a", "b"}]

\* the dictionary 'partitions' built by _validate_template: the ids of the
\* plain partitions (a second descriptor with the same id replaces the first)
ValidatedIds(templ) ==
    { templ.partitions[j].id : j \in { k \in 1..Len(templ.partitions) :
                                          templ.partitions[k].kind = "partition" } }

\* the variables referenced in the section
UsedVariables(templ) ==
    { "x" : j \in { k \in 1..Len(templ.partitions) : templ.partitions[k].id = "{x}" } }
    \cup (IF templ.hybrid = <<"{x}">> THEN {"x"} ELSE {})

\* _validate_template(templ): TRUE when it returns, FALSE when it raises
_validate_template(templ) ==
    /\ templ.toplevel_ok
    /\ \A j \in 1..Len(templ.partitions) : templ.partitions[j].keys_ok
    /\ IF templ.type = "hybrid"
         THEN /\ templ.hybrid # NoHybrid
              /\ Len(templ.hybrid) \in 1..3
              /\ \A j \in 1..Len(templ.hybrid) : templ.hybrid[j] \in ValidatedIds(templ)
         ELSE templ.hybrid = NoHybrid
    /\ templ.protected # "" => templ.protected \in ValidatedIds(templ)
    /\ UsedVariables(templ) \subseteq templ.params

\* _expand_variables_in_string on an id
Expand(id, values) == IF id = "{x}" THEN values["x"] ELSE id

\* valh.replace_variables(self._specifications, self._param_values)
replace_variables(templ, values) ==
    [templ EXCEPT
       !.partitions = [j \in 1..Len(templ.partitions) |->
                          [templ.partitions[j] EXCEPT !.id = Expand(@, values)]],
       !.hybrid = [j \in 1..Len(templ.hybrid) |-> Expand(templ.hybrid[j], values)]]

NoValues == [v \in {} |-> ""]
NoTemplate ==
    [toplevel_ok |-> FALSE, params |-> {}, type |-> "dos",
     partitions |-> <<[kind |-> "partition", id |-> "a", keys_ok |-> FALSE]>>,
     hybrid |-> NoHybrid, protected |-> ""]

BldInit ==
    bld = [pc |-> "none", tmpl |-> NoTemplate, values |-> NoValues,
           specs |-> NoTemplate, raised |-> FALSE]

\* Builder(devfile, template)
BldNew ==
    /\ bld.pc = "none"
    /\ \E templ \in Templates :
        bld' = IF _validate_template(templ)
                 THEN [bld EXCEPT !.pc = "built", !.tmpl = templ]
                 ELSE [bld EXCEPT !.pc = "raised", !.tmpl = templ, !.raised = TRUE]
    /\ UNCHANGED notBld

\* set_parameter_value(name, value): a name that is no parameter of the
\* template is only reported
BldSet ==
    /\ bld.pc = "built"
    /\ \E value \in {"a", "b"} :
        bld' = IF "x" \in bld.tmpl.params
                 THEN [bld EXCEPT !.values = [v \in {"x"} |-> value]]
                 ELSE [bld EXCEPT !.raised = FALSE]
    /\ UNCHANGED notBld

\* get_specifications(): replacing a variable that has no value raises
BldGet ==
    /\ bld.pc = "built"
    /\ bld' = IF UsedVariables(bld.tmpl) \subseteq DOMAIN bld.values
                THEN [bld EXCEPT !.pc = "got",
                                 !.specs = replace_variables(bld.tmpl, bld.values)]
                ELSE [bld EXCEPT !.pc = "raised", !.raised = TRUE]
    /\ UNCHANGED notBld

NextBld == BldNew \/ BldSet \/ BldGet

InitBld ==
    /\ KeyInit /\ FcIdle /\ fc_tree = EmptyTree
    /\ BldInit /\ um = UmIdle /\ stg = StgIdle /\ cfg = CfgIdle /\ brg = BrgIdle
    /\ dvc = DvcIdle /\ syn = SynIdle
    /\ iph = IphIdle /\ prt = PrtIdle /\ pidp = PidpIdle /\ evt = EvtIdle

SpecBld == InitBld /\ [][NextBld]_vars

\* the ids of the plain partitions of a layout are all different
UniquePartIds(specs) ==
    \A j, k \in 1..Len(specs.partitions) :
        (j # k /\ specs.partitions[j].kind = "partition"
               /\ specs.partitions[k].kind = "partition")
        => specs.partitions[j].id # specs.partitions[k].id

\* C25: a Builder never returns from get_specifications a layout in which
\* two partition descriptors carry the same id.
C25_PartitionIdsUnique == bld.pc = "got" => UniquePartIds(bld.specs)

(***************************************************************************)
(* The records a Device object keeps of its mounts.                        *)
(***************************************************************************)
\* the partition is mounted where this object mounts (the other programs
\* of the harness use OtherDir)
MountedThroughObject(d, p) == d.sysm[p] \in {TmpDir, GivenDir}

\* C26: after any sequence of mount, umount and umount_all calls, raising
\* ones included, a partition id is a key of _mountpoints exactly when the
\* partition is mounted through this Device object, and every id of
\* _auto_umount is a key of _mountpoints.
C26_MountRecordsExact ==
    dvc.pc = "ready"
    => /\ \A p \in DevParts : DictHas(dvc.d.mountpoints, p) <=> MountedThroughObject(dvc.d, p)
       /\ \A p \in dvc.d.auto : DictHas(dvc.d.mountpoints, p)

(***************************************************************************)
(* PIDProtector (lib/PIDProtect.py): processes started from the same       *)
(* command use "with PIDProtector(file)" on one pid file.  Each access to  *)
(* the file is one step; is_running is taken as a whole.                   *)
(***************************************************************************)
\* processes using the pid file
NbProcs == 3

notPidp == <<keyVars, fcVars, um, stg, cfg, brg, dvc, syn, iph, prt, bld, evt>>

Procs == 1..NbProcs
\* the content of the pid file: a pid, or
FileAbsent == 0 - 1
FileEmpty == 0

PidpInit ==
    pidp = [pc |-> "run", file |-> FileAbsent, at |-> [p \in Procs |-> "out"]]

\* PIDProtector.is_running(): the file holds the pid of a live process
\* (all of them have the same command name)
is_running(file, at) ==
    IF file = FileAbsent THEN FALSE
    ELSE IF file = FileEmpty THEN FALSE
    ELSE at[file] # "dead"

\* __enter__: "if self.is_running(): raise AlreadyRunningError"; a refused
\* process may try again
PidCheck ==
    /\ \E p \in Procs :
        /\ pidp.at[p] \in {"out", "refused"}
        /\ pidp' = IF is_running(pidp.file, pidp.at)
                     THEN [pidp EXCEPT !.at[p] = "refused"]
                     ELSE [pidp EXCEPT !.at[p] = "checked"]
    /\ UNCHANGED notPidp

\* __enter__: open(self._file, "w") creates or empties the file
PidOpen ==
    /\ \E p \in Procs :
        /\ pidp.at[p] = "checked"
        /\ pidp' = [pidp EXCEPT !.at[p] = "opened", !.file = FileEmpty]
    /\ UNCHANGED notPidp

\* __enter__: the pid is written when the file is closed; the body of the
\* with statement begins
PidWrite ==
    /\ \E p \in Procs :
        /\ pidp.at[p] = "opened"
        /\ pidp' = [pidp EXCEPT !.at[p] = "in",
                                !.file = IF @ = FileAbsent THEN @ ELSE p]
    /\ UNCHANGED notPidp

\* __exit__: the file is removed when it exists
PidExit ==
    /\ \E p \in Procs :
        /\ pidp.at[p] = "in"
        /\ pidp' = [pidp EXCEPT !.at[p] = "out", !.file = FileAbsent]
    /\ UNCHANGED notPidp

\* a process is killed inside the block: __exit__ is not run
PidKilled ==
    /\ \E p \in Procs :
        /\ pidp.at[p] = "in"
        /\ pidp' = [pidp EXCEPT !.at[p] = "dead"]
    /\ UNCHANGED notPidp

NextPidp == PidCheck \/ PidOpen \/ PidWrite \/ PidExit \/ PidKilled

InitPidp ==
    /\ KeyInit /\ FcIdle /\ fc_tree = EmptyTree
    /\ PidpInit /\ um = UmIdle /\ stg = StgIdle /\ cfg = CfgIdle /\ brg = BrgIdle
    /\ dvc = DvcIdle /\ syn = SynIdle
    /\ iph = IphIdle /\ prt = PrtIdle /\ bld = BldIdle /\ evt = EvtIdle

SpecPidp == InitPidp /\ [][NextPidp]_vars

\* C27: at most one live process is inside a "with PIDProtector(file)"
\* block on the same pid file at any time.
C27_OneProcessInside == Cardinality({p \in Procs : pidp.at[p] = "in"}) <= 1

(***************************************************************************)
(* The rclone processes of one call of RcloneSync.sync.                    *)
(***************************************************************************)
\* rclone processes started by the call and still running
RunningRclone == syn.orphans + (IF syn.process = "running" THEN 1 ELSE 0)

\* C28: during RcloneSync.sync at most one rclone process started by the
\* call is running at any time, and once sync has returned or raised none
\* of them is running and the network monitor is stopped.
C28_OneRcloneAtATime ==
    /\ syn.pc \in SyncPcs => RunningRclone <= 1
    /\ syn.pc \in {"check", "target", "done"} => (RunningRclone = 0 /\ ~syn.monitoring)

(***************************************************************************)
(* Events (lib/Live.py): the local store of events and their delivery to   *)
(* the home server.  One Events object; an event is the record of its     *)
(* timestamp, its type and its data (id stands for the data).  The fields  *)
(* recorded and delivered are history: the events accepted by the object,  *)
(* and the events the server answered 200 to.                              *)
(***************************************************************************)
notEvt == <<keyVars, fcVars, um, stg, cfg, brg, dvc, syn, iph, prt, bld, pidp>>

\* the number of events of a run, and the last second of its clock
MaxEvents == 3
MaxTs == 1
\* the types of _add_event's callers (two of them)
EventTypes == {"BOOT", "INFO"}
\* what a request to the server gives: status 200, another status, or an
\* exception (timeout, no network)
Answers == {"200", "500", "raise"}

EvtInit ==
    evt = [pc |-> "run", internal |-> FALSE, device_id |-> FALSE, conn |-> FALSE,
           backlog |-> <<>>, db |-> <<>>, now |-> 0, nb |-> 0,
           recorded |-> <<>>, delivered |-> {}]

RECURSIVE InsertByTs(_, _)
InsertByTs(row, rows) ==
    IF rows = <<>> THEN <<row>>
    ELSE IF Head(rows).ts <= row.ts THEN <<Head(rows)>> \o InsertByTs(row, Tail(rows))
    ELSE <<row>> \o rows
RECURSIVE OrderByTs(_)
\* SELECT ... FROM events ORDER BY ts ASC (rows of one ts in order of insertion)
OrderByTs(rows) ==
    IF rows = <<>> THEN <<>>
    ELSE InsertByTs(rows[Len(rows)], OrderByTs(SubSeq(rows, 1, Len(rows) - 1)))

\* DELETE FROM events WHERE ts=:ts AND type=:type
DeleteWhere(rows, ts, type) ==
    SelectSeq(rows, LAMBDA row : ~(row.ts = ts /\ row.type = type))

\* Events._open_db: the object once the store is open (the backlog is
\* inserted when the connection is made), and whether it is open
_open_db(e) ==
    IF e.conn THEN [ok |-> TRUE, e |-> e]
    ELSE IF e.internal
    THEN [ok |-> TRUE, e |-> [e EXCEPT !.conn = TRUE, !.db = e.db \o e.backlog, !.backlog = <<>>]]
    ELSE [ok |-> FALSE, e |-> e]

RECURSIVE SendLoop(_, _, _, _)
\* the loop of send_events over the rows selected: a row answered 200 is
\* deleted by timestamp and type, and an exception ends the loop
SendLoop(events, k, e, answer) ==
    IF k > Len(events) THEN e
    ELSE IF answer[k] = "raise" THEN e
    ELSE IF answer[k] = "200"
    THEN SendLoop(events, k + 1,
                  [e EXCEPT !.db = DeleteWhere(e.db, events[k].ts, events[k].type),
                            !.delivered = e.delivered \cup {events[k].id}],
                  answer)
    ELSE SendLoop(events, k + 1, e, answer)

\* Events.send_events()
send_events(e, answer) ==
    IF _open_db(e).ok
    THEN SendLoop(OrderByTs(_open_db(e).e.db), 1, _open_db(e).e, answer)
    ELSE e

\* Events._ensure_device_id: the attestation file is on the internal
\* partition
CanEnsureDeviceId(e) == e.device_id \/ e.internal

\* the body of _add_event after _ensure_device_id: the INSERT and the
\* immediate send_events, or the backlog
Record(e, event, answer) ==
    IF _open_db(e).ok
    THEN send_events([_open_db(e).e EXCEPT !.db = Append(_open_db(e).e.db, event),
                                           !.recorded = Append(e.recorded, event)],
                     answer)
    ELSE [e EXCEPT !.backlog = Append(e.backlog, event),
                   !.recorded = Append(e.recorded, event)]

\* Events._add_event(event_type, event_data): an exception (no device id)
\* is logged and the event is dropped
_add_event(e, event_type, answer) ==
    IF ~CanEnsureDeviceId(e) THEN [e EXCEPT !.nb = e.nb + 1]
    ELSE Record([e EXCEPT !.device_id = TRUE, !.nb = e.nb + 1],
                [id |-> e.nb + 1, ts |-> e.now, type |-> event_type], answer)

\* Events.declare_device(): the attestation and the ssh host key are read
\* before the event is recorded
declare_device(e, ssh_key, answer) ==
    IF ~CanEnsureDeviceId(e) THEN [e EXCEPT !.nb = e.nb + 1]
    ELSE IF ~e.internal \/ ~ssh_key THEN [e EXCEPT !.device_id = TRUE, !.nb = e.nb + 1]
    ELSE Record([e EXCEPT !.device_id = TRUE, !.nb = e.nb + 1],
                [id |-> e.nb + 1, ts |-> e.now, type |-> "DECL"], answer)

\* the internal partition is mounted (the key is unlocked)
EvtMount ==
    /\ evt.pc = "run" /\ ~evt.internal
    /\ evt' = [evt EXCEPT !.internal = TRUE]
    /\ UNCHANGED notEvt

\* the internal partition is unmounted; it is busy while the store is open
EvtUmount ==
    /\ evt.pc = "run" /\ evt.internal /\ ~evt.conn
    /\ evt' = [evt EXCEPT !.internal = FALSE]
    /\ UNCHANGED notEvt

\* datetime.utcnow() reaches the next second
EvtTick ==
    /\ evt.pc = "run" /\ evt.now < MaxTs
    /\ evt' = [evt EXCEPT !.now = evt.now + 1]
    /\ UNCHANGED notEvt

\* add_booted_event, add_info_event, ...: Events._add_event
EvtAdd ==
    /\ evt.pc = "run" /\ evt.nb < MaxEvents
    /\ \E event_type \in EventTypes : \E answer \in [1..MaxEvents -> Answers] :
          evt' = _add_event(evt, event_type, answer)
    /\ UNCHANGED notEvt

\* InsecaPostStartupJob.run: Events.declare_device
EvtDeclare ==
    /\ evt.pc = "run" /\ evt.nb < MaxEvents
    /\ \E ssh_key \in BOOLEAN : \E answer \in [1..MaxEvents -> Answers] :
          evt' = declare_device(evt, ssh_key, answer)
    /\ UNCHANGED notEvt

\* Events.send_events called on its own
EvtSend ==
    /\ evt.pc = "run"
    /\ \E answer \in [1..MaxEvents -> Answers] :
          evt' = send_events(evt, answer)
    /\ UNCHANGED notEvt

NextEvt == EvtMount \/ EvtUmount \/ EvtTick \/ EvtAdd \/ EvtDeclare \/ EvtSend

InitEvt ==
    /\ KeyInit /\ FcIdle /\ fc_tree = EmptyTree
    /\ EvtInit /\ um = UmIdle /\ stg = StgIdle /\ cfg = CfgIdle /\ brg = BrgIdle
    /\ dvc = DvcIdle /\ syn = SynIdle
    /\ iph = IphIdle /\ prt = PrtIdle /\ bld = BldIdle /\ pidp = PidpIdle

SpecEvt == InitEvt /\ [][NextEvt]_vars

\* the rows of the store and the backlog, in this order
Stored(e) == e.db \o e.backlog
\* the event is in the store or in the backlog
InStore(e, event) == \E j \in 1..Len(Stored(e)) : Stored(e)[j] = event

\* C30: an event leaves the local store only after this same event was
\* answered 200: every recorded event not yet delivered is stored, also when
\* several events share timestamp and type; and the events recorded before
\* the internal partition is mounted are in the store once and in their
\* original order.
C30_StoredUntilDelivered ==
    /\ \A j \in 1..Len(evt.recorded) :
          evt.recorded[j].id \notin evt.delivered => InStore(evt, evt.recorded[j])
    /\ \A j \in 1..Len(Stored(evt)) : \A k \in 1..Len(Stored(evt)) :
          j < k => Stored(evt)[j].id < Stored(evt)[k].id
====
